---- MODULE Spec2Model ----
(***************************************************************************)
(* State-machine model of the trading bot: the cycle engine               *)
(* (run_analysis_bot.py), the paper ledger (trading/account.py), the      *)
(* store (web/database.py), the risk validator (trading/risk.py) and the  *)
(* bot-control endpoints of the control plane (web/app.py).               *)
(*                                                                         *)
(* Arithmetic.  The program computes with floats; the model computes with *)
(* exact integers.  The value sets below (Prices, Quantities, Leverages)  *)
(* are chosen so that every quotient the program forms is integral, so    *)
(* the integer result is the exact real result.                           *)
(*                                                                         *)
(* Callees the engine targets that src/ does not hold.  The engine calls  *)
(* TradingAccount.check_liquidation, TradingAccount.can_open_position     *)
(* with a leverage argument and parse_llm_response with leverage_limits.  *)
(* src/ holds no check_liquidation at all and holds the earlier           *)
(* one-argument forms of the other two.  check_liquidation is modelled    *)
(* from the specification (section 4.2); the other two are modelled by    *)
(* the bodies src/ holds, the extra argument having no effect.            *)
(***************************************************************************)
EXTENDS Integers, Sequences, FiniteSets, TLC

\* ------------------------------------------------------------ value sets
Coins == {"BTC", "ETH"}
Prices == {100, 200}
Quantities == {20, 60}
Leverages == {2}
Engines == {1, 2}
EntrySignals == {"buy_to_enter", "sell_to_enter"}
Signals == EntrySignals \cup {"hold", "close"}
TokenValues == {"running", "paused", "stopped"}

\* Bounds: how many decisions the LLM hands out in one behaviour, and how
\* many commands (start, pause, resume, stop, launch, interrupt) the
\* operator issues.
MaxDecisions == 2
MaxOps == 2
\* The same two bounds of the control-plane specification (two engine slots).
MaxDecisionsCtl == 1
MaxOpsCtl == 3
\* The same two bounds of the specification of scenario S1.
MaxDecisionsS1 == 3
MaxOpsS1 == 2

\* current_prices.get(coin) of a coin that was not fetched (None, falsy).
NoPrice == 0
\* TradingAccount(initial_balance=1000.0)
InitialBalance == 1000
\* settings.max_position_size_usd, settings.max_leverage,
\* settings.daily_loss_limit_usd (defaults)
MaxPositionSizeUsd == 50
MaxLeverage == 5
DailyLossLimitUsd == 20
\* bot_settings default of min_balance_threshold
DefaultMinBalance == 1
\* datetime.utcnow(), the day of it: a behaviour happens within one UTC
\* day, the days before it are smaller numbers (0: no exit_time)
Today == 2
\* TradeDecision.leverage: Field(ge=0, le=20)
ParserMaxLeverage == 20
\* leverage_limits[symbol] of a paper cycle
PaperLeverageLimit == 100
\* maximum leverages an exchange may allow for a coin
ExchangeMaxLeverages == {1, ParserMaxLeverage}

\* execution_interval_seconds the operator may configure, in time units,
\* and the one the store starts with
Intervals == {1, 2}
DefaultInterval == 2

\* ------------------------------------------------------------ records
\* "coin not in account.positions"
NoPos == [pid |-> 0, side |-> "none", entry |-> 0, qty |-> 0, lev |-> 0]
\* get_latest_account_state() of an empty account_state table
NoSnap == [n |-> 0, balance |-> 0, equity |-> 0, unrealized |-> 0,
           realized |-> 0, num |-> 0]
\* the cycle's local variables before a cycle has run, with the cycle's
\* history: the last status event it appended, whether the pre-flight check
\* skipped it, whether it called the LLM, the type of the operator input it
\* put into the prompt, whether it returned False, and (after the cycle)
\* whether next_cycle_time was stored
NoCycle == [cp |-> [c \in Coins |-> NoPrice], did |-> 0,
            sumBalance |-> 0, sumNum |-> 0,
            status |-> "none", skip |-> FALSE, llm |-> FALSE,
            guidance |-> "none", failed |-> FALSE, nct |-> FALSE]

\* What the LLM may answer: an entry with a margin and a leverage, or a
\* hold / close with quantity_usd = leverage = 0 (the parser allows both).
LLMDecisions ==
    [coin : Coins, signal : EntrySignals, qty : Quantities, lev : Leverages]
    \cup [coin : Coins, signal : {"hold", "close"}, qty : {0}, lev : {0}]

\* ------------------------------------------------------------ pure helpers
\* Position.calculate_pnl: position_size = quantity_usd * leverage / entry;
\* long: (price - entry) * size, short: (entry - price) * size.
calculate_pnl(p, price) ==
    IF p.side = "long"
    THEN ((price - p.entry) * p.qty * p.lev) \div p.entry
    ELSE ((p.entry - price) * p.qty * p.lev) \div p.entry

\* Position.get_margin
get_margin(p) == p.qty

\* A liquidation price that is below the entry whatever the side.
calculate_liquidation_price_below(entry, lev, side) ==
    IF lev <= 0 THEN "ValueError" ELSE entry - (entry \div lev)

\* RiskManager.calculate_liquidation_price: ValueError for a leverage that
\* is not positive; entry * (1 - 1/leverage) for a long, entry * (1 +
\* 1/leverage) for any other side
calculate_liquidation_price(entry, lev, side) ==
    IF lev <= 0 THEN "ValueError"
    ELSE IF side = "long" THEN entry - (entry \div lev)
    ELSE entry + (entry \div lev)

\* ------------------------------------------------------------ state
VARIABLES
    token,        \* data/bot_control.txt (an absent file reads as "stopped")
    isLive,       \* settings.is_live_trading()
    minBalance,   \* bot_settings.min_balance_threshold
    budget,       \* decisions the LLM may still hand out (model bound)
    menu,         \* the answers the LLM may give in this behaviour
    priceMenu,    \* the prices the market may show in this behaviour
    exMaxLev,     \* per coin: the maximum leverage the exchange allows
    decisions,    \* table decisions, in id order (id = index)
    positions,    \* table positions, in insertion order
    snap,         \* latest row of table account_state (n = number of rows)
    lastStatus,   \* latest row of table bot_status
    inputs,       \* table user_inputs, in id order (id = index)
    delPending,   \* id a DELETE /api/user_input handler has read and not yet archived
    exPos,        \* the exchange's position per coin (live mode)
    pidSeq,       \* position ids handed out so far (ids are time stamps)
    startChecked, \* /api/bot/start handlers past the is-running check
    startSpawned, \* /api/bot/start handlers past Popen, before the token write
    slots,        \* engine process slots the environment may use
    ops,          \* operator commands the environment may still issue (model bound)
    pc,           \* per engine process: where it is in main / run_bot
    lstate,       \* per engine: the value its last read of the token returned
    ledger,       \* per engine: its TradingAccount (balance, realized_pnl, positions)
    cyc,          \* per engine: locals of the running cycle
    trace,        \* per engine: store/ledger/exchange events of the running cycle
    sawStopped,   \* per engine: it has read the token as "stopped" (history)
    exitPc,       \* per engine: pc at which the last interrupt hit it (history)
    resumeSeen,   \* an operator resume of a paused engine awaits its cycle (history)
    interval,     \* bot_settings.execution_interval_seconds, in time units
    nctAhead,     \* bot_settings.next_cycle_time minus the current time (0: reached)
    sleepLeft,    \* per engine: what is left of its sleep, in time units
    nctMonotone,  \* no successful cycle's next_cycle_time was earlier than the one
                  \* stored before it (history)
    calc          \* a call of calculate_liquidation_price outside the engine:
                  \* its arguments, its result and the P&L at that price

ctlVars == <<token, startChecked, startSpawned, slots, ops, resumeSeen>>
storeVars == <<decisions, positions, snap, lastStatus>>
inputVars == <<inputs, delPending>>
envVars == <<isLive, minBalance, budget, menu, priceMenu, exMaxLev, exPos, pidSeq>>
engVars == <<pc, lstate, ledger, cyc, trace, sawStopped, exitPc>>
timeVars == <<interval, nctAhead, sleepLeft, nctMonotone>>
vars == <<ctlVars, storeVars, inputVars, envVars, engVars, timeVars, calc>>

\* TradingAccount.__init__ before _load_from_database
FreshLedger ==
    [balance |-> InitialBalance, realized |-> 0, pos |-> [c \in Coins |-> NoPos]]

InCycle == {"begin", "decide", "exec", "snap"}
Alive(e) == pc[e] # "off"
\* is_bot_process_running: a process whose command line names the bot script
is_bot_process_running == \E e \in Engines : Alive(e)

\* ------------------------------------------------------------ store
\* save_position_entry: INSERT ... status 'open'
save_position_entry(rows, pid, coin, side, entry, qty, lev, did) ==
    Append(rows, [pid |-> pid, coin |-> coin, side |-> side, entry |-> entry,
                  qty |-> qty, lev |-> lev, did |-> did, status |-> "open",
                  exit |-> 0, pnl |-> 0, exitDay |-> 0])

\* database.close_position: UPDATE positions SET exit_time = utcnow, ...
\* WHERE position_id = ?
db_close_position(rows, pid, exit, pnl) ==
    [i \in 1..Len(rows) |->
        IF rows[i].pid = pid
        THEN [rows[i] EXCEPT !.status = "closed", !.exit = exit, !.pnl = pnl,
                             !.exitDay = Today]
        ELSE rows[i]]

\* get_open_positions: WHERE status = 'open' ORDER BY entry_time DESC
\* (indices of the open rows; the newest row is the greatest index)
get_open_positions(rows) == {i \in 1..Len(rows) : rows[i].status = "open"}

\* update_decision_execution: UPDATE decisions SET execution_status = ? WHERE id = ?
\* (nset counts the updates of the row: history)
update_decision_execution(decs, did, status) ==
    [decs EXCEPT ![did].status = status, ![did].nset = @ + 1]

\* save_decision: INSERT INTO decisions; execution_status defaults to 'pending'
save_decision(decs, d, riskOk) ==
    Append(decs, [coin |-> d.coin, signal |-> d.signal, qty |-> d.qty,
                  lev |-> d.lev, status |-> "pending", nset |-> 0,
                  riskOk |-> riskOk])

\* save_account_state: INSERT INTO account_state
save_account_state(s, balance, equity, unrealized, realized, num) ==
    [n |-> s.n + 1, balance |-> balance, equity |-> equity,
     unrealized |-> unrealized, realized |-> realized, num |-> num]

\* a save that inserts the new row without archiving the active one
save_user_input_keep_active(rows, type) ==
    Append(rows, [type |-> type, active |-> TRUE])
\* save_user_input: one transaction that archives every active row and
\* inserts the new row as the active one
save_user_input(rows, type) ==
    Append([i \in 1..Len(rows) |-> [rows[i] EXCEPT !.active = FALSE]],
           [type |-> type, active |-> TRUE])

\* get_active_user_input: WHERE is_active = 1 ORDER BY timestamp DESC LIMIT 1
\* (the id of the newest active row of any type; 0: no row)
get_active_user_input(rows) ==
    LET act == {i \in 1..Len(rows) : rows[i].active}
    IN IF act = {} THEN 0 ELSE CHOOSE i \in act : \A j \in act : i >= j

\* archive_user_input: UPDATE user_inputs SET is_active = 0 WHERE id = ?
archive_user_input(rows, id) ==
    [i \in 1..Len(rows) |-> IF i = id THEN [rows[i] EXCEPT !.active = FALSE]
                                      ELSE rows[i]]

\* the direct-query path of an interrupt-type input: it answers the
\* operator out of band and leaves the user_inputs table as it is
handle_direct_query(rows) == rows

\* ------------------------------------------------------------ ledger
OpenCoins(L) == {c \in Coins : L.pos[c] # NoPos}

\* the margins locked in the open positions S of a ledger
RECURSIVE SumMargin(_, _)
SumMargin(L, S) ==
    IF S = {} THEN 0
    ELSE LET c == CHOOSE x \in S : TRUE
         IN get_margin(L.pos[c]) + SumMargin(L, S \ {c})

\* TradingAccount.get_unrealized_pnl: the P&L of every open position whose
\* coin has a price
RECURSIVE SumUnrealized(_, _, _)
SumUnrealized(L, cp, S) ==
    IF S = {} THEN 0
    ELSE LET c == CHOOSE x \in S : TRUE
         IN (IF cp[c] # NoPrice THEN calculate_pnl(L.pos[c], cp[c]) ELSE 0)
            + SumUnrealized(L, cp, S \ {c})

get_unrealized_pnl(L, cp) == SumUnrealized(L, cp, OpenCoins(L))

\* an equity that also counts the margins of the open positions
get_total_equity_with_margin(L, cp) ==
    L.balance + SumMargin(L, OpenCoins(L)) + get_unrealized_pnl(L, cp)
\* TradingAccount.get_total_equity
get_total_equity(L, cp) == L.balance + get_unrealized_pnl(L, cp)

\* a balance check that never refuses
can_open_position_always(L, qty) == TRUE

\* TradingAccount.can_open_position
can_open_position(L, qty) == L.balance >= qty

\* TradingAccount.open_position, the ledger part: the margin leaves the
\* balance and positions[coin] is (re)assigned, an existing position of the
\* coin being replaced.
open_position(L, coin, side, entry, qty, lev, pid) ==
    [L EXCEPT !.balance = @ - qty,
              !.pos[coin] = [pid |-> pid, side |-> side, entry |-> entry,
                             qty |-> qty, lev |-> lev]]

\* TradingAccount.close_position up to the store call: margin plus P&L
\* return to the balance, realized_pnl accumulates.
close_position_credit(L, coin, exit) ==
    LET p == L.pos[coin]
        pnl == calculate_pnl(p, exit)
    IN [L EXCEPT !.balance = @ + get_margin(p) + pnl, !.realized = @ + pnl]

\* TradingAccount.close_position after the store call: del self.positions[coin]
close_position(L, coin, exit) ==
    [close_position_credit(L, coin, exit) EXCEPT !.pos[coin] = NoPos]

\* Whether the price has crossed the position's liquidation price.
Liquidated(p, price) ==
    /\ p # NoPos
    /\ price # NoPrice
    /\ LET liq == calculate_liquidation_price(p.entry, p.lev, p.side)
       IN IF p.side = "long" THEN price <= liq ELSE price >= liq

\* A liquidation check that closes nothing.
check_liquidation_none(L, rows, cp, todo) == [ledger |-> L, rows |-> rows]

\* TradingAccount.check_liquidation: every open position whose price has
\* crossed its liquidation price is closed at that price.
RECURSIVE check_liquidation(_, _, _, _)
check_liquidation(L, rows, cp, todo) ==
    IF todo = {} THEN [ledger |-> L, rows |-> rows]
    ELSE LET c == CHOOSE x \in todo : TRUE
             p == L.pos[c]
             liq == calculate_liquidation_price(p.entry, p.lev, p.side)
         IN IF Liquidated(p, cp[c])
            THEN check_liquidation(close_position(L, c, liq),
                                   db_close_position(rows, p.pid, liq,
                                                     calculate_pnl(p, liq)),
                                   cp, todo \ {c})
            ELSE check_liquidation(L, rows, cp, todo \ {c})

\* TradingAccount._load_from_database: balance and realized_pnl from the
\* latest snapshot; the open rows are read newest first and assigned by
\* coin, so the oldest open row of a coin is the one that stays.
load_from_database(s, rows) ==
    [balance |-> IF s.n > 0 THEN s.balance ELSE InitialBalance,
     realized |-> IF s.n > 0 THEN s.realized ELSE 0,
     pos |-> [c \in Coins |->
        LET open == {i \in get_open_positions(rows) : rows[i].coin = c}
        IN IF open = {} THEN NoPos
           ELSE LET i == CHOOSE j \in open : \A k \in open : j <= k
                IN [pid |-> rows[i].pid, side |-> rows[i].side,
                    entry |-> rows[i].entry, qty |-> rows[i].qty,
                    lev |-> rows[i].lev]]]

\* ------------------------------------------------------------ risk
\* sum of realized_pnl over the closed rows (get_closed_positions)
RECURSIVE SumRealized(_)
SumRealized(rows) ==
    IF rows = <<>> THEN 0
    ELSE (IF Head(rows).status = "closed" THEN Head(rows).pnl ELSE 0)
         + SumRealized(Tail(rows))

\* sum of realized_pnl over the closed rows whose exit_time is in a day
RECURSIVE SumRealizedOn(_, _)
SumRealizedOn(rows, day) ==
    IF rows = <<>> THEN 0
    ELSE (IF Head(rows).status = "closed" /\ Head(rows).exitDay = day
          THEN Head(rows).pnl ELSE 0)
         + SumRealizedOn(Tail(rows), day)

\* RiskManager.get_daily_realized_pnl: the closed rows with
\* today_start <= exit_time < today_end
get_daily_realized_pnl(rows) == SumRealizedOn(rows, Today)

\* A close check that asks for no position.
validate_close_signal_always(d, L) == TRUE

\* RiskManager._validate_close_signal
validate_close_signal(d, L) == L.pos[d.coin] # NoPos

\* The entry checks without the daily loss limit.
validate_entry_signal_no_daily(d, L, rows) ==
    /\ ~(d.qty > MaxPositionSizeUsd)
    /\ ~(d.lev > MaxLeverage)
    /\ ~(d.qty < 1)
    /\ ~(d.qty > L.balance)
    /\ ~(L.pos[d.coin] # NoPos)

\* RiskManager._validate_entry_signal: the six rejecting checks, in order
validate_entry_signal(d, L, rows) ==
    /\ ~(d.qty > MaxPositionSizeUsd)
    /\ ~(d.lev > MaxLeverage)
    /\ ~(d.qty < 1)
    /\ ~(d.qty > L.balance)
    /\ ~(get_daily_realized_pnl(rows) < -DailyLossLimitUsd)
    /\ ~(L.pos[d.coin] # NoPos)

\* RiskManager.validate_trade
validate_trade(d, L, rows) ==
    IF d.signal = "hold" THEN TRUE
    ELSE IF d.signal = "close" THEN validate_close_signal(d, L)
    ELSE validate_entry_signal(d, L, rows)

\* ------------------------------------------------------------ initial state
\* the default threshold, or one the initial balance just meets
MinBalances == {DefaultMinBalance, InitialBalance}

\* What every specification starts from: no bot process, an empty store.
InitStore ==
    /\ token = "stopped"
    /\ decisions = <<>>
    /\ positions = <<>>
    /\ snap = NoSnap
    /\ lastStatus = "none"
    /\ inputs = <<>>
    /\ delPending = 0
    /\ exPos = [c \in Coins |-> NoPos]
    /\ pidSeq = 0
    /\ startChecked = 0
    /\ startSpawned = 0
    /\ pc = [e \in Engines |-> "off"]
    /\ lstate = [e \in Engines |-> "stopped"]
    /\ ledger = [e \in Engines |-> FreshLedger]
    /\ cyc = [e \in Engines |-> NoCycle]
    /\ trace = [e \in Engines |-> <<>>]
    /\ sawStopped = [e \in Engines |-> FALSE]
    /\ exitPc = [e \in Engines |-> "none"]
    /\ resumeSeen = FALSE
    /\ interval = DefaultInterval
    /\ nctAhead = 0
    /\ sleepLeft = [e \in Engines |-> 0]
    /\ nctMonotone = TRUE

\* no call of calculate_liquidation_price outside the engine
NoCalc == [stage |-> "none"]

\* the answers of the LLM that are about BTC
BtcDecisions == {d \in LLMDecisions : d.coin = "BTC"}

\* One engine slot; paper or live; the default balance threshold; two
\* decisions, both about BTC.
Init ==
    /\ InitStore
    /\ calc = NoCalc
    /\ isLive \in BOOLEAN
    /\ minBalance = DefaultMinBalance
    /\ budget = MaxDecisions
    /\ menu = BtcDecisions
    /\ priceMenu = Prices
    /\ exMaxLev = [c \in Coins |-> ParserMaxLeverage]
    /\ ops = MaxOps
    /\ slots = {1}

\* One engine slot; paper or live; the default balance threshold or one
\* the initial balance just meets; one decision, more operator commands.
InitOne ==
    /\ InitStore
    /\ calc = NoCalc
    /\ isLive \in BOOLEAN
    /\ minBalance \in MinBalances
    /\ budget = MaxDecisionsCtl
    /\ menu = LLMDecisions
    /\ priceMenu = Prices
    /\ exMaxLev = [c \in Coins |-> ParserMaxLeverage]
    /\ ops = MaxOpsCtl
    /\ slots = {1}

\* Scenario S1: the LLM buys BTC with a margin of 50 at leverage 2, holds,
\* closes; the market shows 100000, 101000, 102000.
S1Decisions ==
    {[coin |-> "BTC", signal |-> "buy_to_enter", qty |-> 50, lev |-> 2],
     [coin |-> "BTC", signal |-> "hold", qty |-> 0, lev |-> 0],
     [coin |-> "BTC", signal |-> "close", qty |-> 0, lev |-> 0]}
S1Prices == {100000, 101000, 102000}

\* One engine slot, paper mode, the answers and prices of scenario S1.
InitS1 ==
    /\ InitStore
    /\ calc = NoCalc
    /\ isLive = FALSE
    /\ minBalance = DefaultMinBalance
    /\ budget = MaxDecisionsS1
    /\ menu = S1Decisions
    /\ priceMenu = S1Prices
    /\ exMaxLev = [c \in Coins |-> ParserMaxLeverage]
    /\ ops = MaxOpsS1
    /\ slots = {1}

\* the answers of the LLM in the control-plane specification
CtlDecisions == {d \in BtcDecisions : d.signal # "sell_to_enter"}
CtlPrices == {100}

\* Two engine slots, paper mode, more operator commands, one decision.
InitCtl ==
    /\ InitStore
    /\ calc = NoCalc
    /\ isLive = FALSE
    /\ minBalance = DefaultMinBalance
    /\ budget = MaxDecisionsCtl
    /\ menu = CtlDecisions
    /\ priceMenu = CtlPrices
    /\ exMaxLev = [c \in Coins |-> ParserMaxLeverage]
    /\ ops = MaxOpsCtl
    /\ slots = Engines

\* ------------------------------------------------------------ control plane
\* Processes the environment may still create: one per slot, a handler
\* past its check holding one.
FreeSlots == {e \in slots : pc[e] = "off"}
CanLaunch == Cardinality(FreeSlots) > startChecked

\* POST /api/bot/start, first half: is_bot_process_running() answers no.
\* (When it answers yes the handler returns 400 and nothing changes.)
ApiStartCheck ==
    /\ ops > 0
    /\ ops' = ops - 1
    /\ ~is_bot_process_running
    /\ CanLaunch
    /\ startChecked' = startChecked + 1
    /\ UNCHANGED <<token, startSpawned, slots, resumeSeen>>
    /\ UNCHANGED <<storeVars, inputVars, envVars, calc, engVars>>
    /\ UNCHANGED timeVars

\* POST /api/bot/start, second half: subprocess.Popen([python, bot, "start"])
ApiStartSpawn ==
    /\ startChecked > 0
    /\ \E e \in FreeSlots :
        /\ pc' = [pc EXCEPT ![e] = "boot"]
        /\ exitPc' = [exitPc EXCEPT ![e] = "none"]
    /\ startChecked' = startChecked - 1
    /\ startSpawned' = startSpawned + 1
    /\ UNCHANGED <<token, slots, ops, resumeSeen>>
    /\ UNCHANGED <<storeVars, inputVars, envVars, calc>>
    /\ UNCHANGED <<lstate, ledger, cyc, trace, sawStopped>>
    /\ UNCHANGED timeVars

\* POST /api/bot/start, end: write_bot_state('running')
ApiStartWrite ==
    /\ startSpawned > 0
    /\ startSpawned' = startSpawned - 1
    /\ token' = "running"
    /\ UNCHANGED <<startChecked, slots, ops, resumeSeen>>
    /\ UNCHANGED <<storeVars, inputVars, envVars, calc, engVars>>
    /\ UNCHANGED timeVars

\* POST /api/bot/pause, or the CLI's "pause"
ApiPause ==
    /\ ops > 0
    /\ ops' = ops - 1
    /\ token' = "paused"
    /\ resumeSeen' = FALSE
    /\ UNCHANGED <<startChecked, startSpawned, slots>>
    /\ UNCHANGED <<storeVars, inputVars, envVars, calc, engVars>>
    /\ UNCHANGED timeVars

\* POST /api/bot/stop, or the CLI's "stop"
ApiStop ==
    /\ ops > 0
    /\ ops' = ops - 1
    /\ token' = "stopped"
    /\ resumeSeen' = FALSE
    /\ UNCHANGED <<startChecked, startSpawned, slots>>
    /\ UNCHANGED <<storeVars, inputVars, envVars, calc, engVars>>
    /\ UNCHANGED timeVars

\* An engine that is in its loop (past run_bot's initialisation).
InLoop(e) == pc[e] \notin {"off", "boot", "init"}

\* POST /api/bot/resume: refused unless a bot process is running
ApiResume ==
    /\ ops > 0
    /\ ops' = ops - 1
    /\ is_bot_process_running
    /\ token' = "running"
    /\ resumeSeen' = (resumeSeen \/ (token = "paused" /\ \E e \in Engines :
                                        InLoop(e) /\ pc[e] \notin InCycle))
    /\ UNCHANGED <<startChecked, startSpawned, slots>>
    /\ UNCHANGED <<storeVars, inputVars, envVars, calc, engVars>>
    /\ UNCHANGED timeVars

\* POST /api/user_input: save_user_input for either message type; an
\* interrupt-type message then takes the direct-query path
InputTypes == {"cycle", "interrupt"}
ApiUserInputPost ==
    /\ ops > 0
    /\ ops' = ops - 1
    /\ \E t \in InputTypes :
        inputs' = IF t = "interrupt"
                  THEN handle_direct_query(save_user_input(inputs, t))
                  ELSE save_user_input(inputs, t)
    /\ UNCHANGED <<token, startChecked, startSpawned, slots, resumeSeen>>
    /\ UNCHANGED <<storeVars, delPending, envVars, calc, engVars>>
    /\ UNCHANGED timeVars

\* POST /api/bot_config with execution_interval_seconds: update_bot_config
ApiBotConfig ==
    /\ ops > 0
    /\ ops' = ops - 1
    /\ \E i \in Intervals \ {interval} : interval' = i
    /\ UNCHANGED <<nctAhead, sleepLeft, nctMonotone>>
    /\ UNCHANGED <<token, startChecked, startSpawned, slots, resumeSeen>>
    /\ UNCHANGED <<storeVars, inputVars, envVars, calc, engVars>>

\* DELETE /api/user_input, first transaction: get_active_user_input()
ApiUserInputDeleteRead ==
    /\ ops > 0
    /\ ops' = ops - 1
    /\ delPending = 0
    /\ delPending' = get_active_user_input(inputs)
    /\ UNCHANGED <<token, startChecked, startSpawned, slots, resumeSeen>>
    /\ UNCHANGED <<storeVars, inputs, envVars, calc, engVars>>
    /\ UNCHANGED timeVars

\* DELETE /api/user_input, second transaction: archive_user_input(id)
ApiUserInputDeleteArchive ==
    /\ delPending # 0
    /\ inputs' = archive_user_input(inputs, delPending)
    /\ delPending' = 0
    /\ UNCHANGED <<ctlVars, storeVars, envVars, calc, engVars>>
    /\ UNCHANGED timeVars

\* python run_analysis_bot.py (no argument), as start_bot.py launches it:
\* main() calls run_bot() without looking at the token.
CliLaunch ==
    /\ ops > 0
    /\ ops' = ops - 1
    /\ CanLaunch
    /\ \E e \in FreeSlots :
        /\ pc' = [pc EXCEPT ![e] = "init"]
        /\ exitPc' = [exitPc EXCEPT ![e] = "none"]
    /\ UNCHANGED <<token, startChecked, startSpawned, slots, resumeSeen>>
    /\ UNCHANGED <<storeVars, inputVars, envVars, calc>>
    /\ UNCHANGED <<lstate, ledger, cyc, trace, sawStopped>>
    /\ UNCHANGED timeVars

\* ------------------------------------------------------------ engine: main, run_bot
\* main(), command "start": refuse when the token already reads running
BootCheck(e) ==
    /\ pc[e] = "boot"
    /\ pc' = [pc EXCEPT ![e] = IF token = "running" THEN "off" ELSE "init"]
    /\ UNCHANGED <<ctlVars, storeVars, inputVars, envVars, calc>>
    /\ UNCHANGED <<lstate, ledger, cyc, trace, sawStopped, exitPc>>
    /\ UNCHANGED timeVars

\* run_bot() up to the loop: the account is built (from the store), the
\* SIGINT handler installed, the token written running.
EngineInit(e) ==
    /\ pc[e] = "init"
    /\ ledger' = [ledger EXCEPT ![e] = load_from_database(snap, positions)]
    /\ token' = "running"
    /\ pc' = [pc EXCEPT ![e] = "loop"]
    /\ sawStopped' = [sawStopped EXCEPT ![e] = FALSE]
    /\ lstate' = [lstate EXCEPT ![e] = "running"]
    /\ UNCHANGED <<startChecked, startSpawned, slots, ops, resumeSeen>>
    /\ UNCHANGED <<storeVars, inputVars, envVars, calc, cyc, trace, exitPc>>
    /\ UNCHANGED timeVars

\* top of the loop: state = read_control_state()
LoopRead(e) ==
    /\ pc[e] = "loop"
    /\ lstate' = [lstate EXCEPT ![e] = token]
    /\ sawStopped' = [sawStopped EXCEPT ![e] = @ \/ token = "stopped"]
    /\ pc' = [pc EXCEPT ![e] = IF token = "running" THEN "begin" ELSE "wpause"]
    /\ trace' = [trace EXCEPT ![e] = <<>>]
    /\ cyc' = [cyc EXCEPT ![e] = NoCycle]
    /\ resumeSeen' = (resumeSeen /\ token # "running")
    /\ UNCHANGED <<token, startChecked, startSpawned, slots, ops>>
    /\ UNCHANGED <<storeVars, inputVars, envVars, calc, ledger, exitPc>>
    /\ UNCHANGED timeVars

\* state != "running": write_control_state("paused")
WritePaused(e) ==
    /\ pc[e] = "wpause"
    /\ token' = "paused"
    /\ pc' = [pc EXCEPT ![e] = "pwait"]
    /\ UNCHANGED <<startChecked, startSpawned, slots, ops, resumeSeen>>
    /\ UNCHANGED <<storeVars, inputVars, envVars, calc>>
    /\ UNCHANGED <<lstate, ledger, cyc, trace, sawStopped, exitPc>>
    /\ UNCHANGED timeVars

\* while read_control_state() == "paused": sleep(5); then continue
PauseWait(e) ==
    /\ pc[e] = "pwait"
    /\ UNCHANGED lstate
    /\ sawStopped' = [sawStopped EXCEPT ![e] = @ \/ token = "stopped"]
    /\ pc' = [pc EXCEPT ![e] = IF token = "paused" THEN "pwait" ELSE "loop"]
    /\ UNCHANGED <<ctlVars, storeVars, inputVars, envVars, calc, ledger, cyc, trace, exitPc>>
    /\ UNCHANGED timeVars

\* an end of cycle that lets the engine process end after a failed cycle
CycleEndAbort(e) ==
    /\ pc[e] = "end"
    /\ pc' = [pc EXCEPT ![e] = IF cyc[e].failed THEN "off" ELSE "sleep"]
    /\ cyc' = [cyc EXCEPT ![e] = [NoCycle EXCEPT !.skip = cyc[e].skip,
                                      !.failed = cyc[e].failed]]
    /\ UNCHANGED <<ctlVars, storeVars, inputVars, envVars, calc, timeVars>>
    /\ UNCHANGED <<lstate, ledger, trace, sawStopped, exitPc>>
\* after the cycle, successful or not: wait_time is read from the
\* settings, next_cycle_time = now + wait_time is stored and the sleep of
\* wait_time begins
CycleEnd(e) ==
    /\ pc[e] = "end"
    /\ nctAhead' = interval
    /\ nctMonotone' = (nctMonotone /\ (cyc[e].failed \/ interval >= nctAhead))
    /\ sleepLeft' = [sleepLeft EXCEPT ![e] = interval]
    /\ UNCHANGED interval
    /\ pc' = [pc EXCEPT ![e] = "sleep"]
    /\ cyc' = [cyc EXCEPT ![e] = [NoCycle EXCEPT !.skip = cyc[e].skip,
                                      !.failed = cyc[e].failed, !.nct = TRUE]]
    /\ UNCHANGED <<ctlVars, storeVars, inputVars, envVars, calc>>
    /\ UNCHANGED <<lstate, ledger, trace, sawStopped, exitPc>>

\* the sleep's once-a-second token check: break when it is not running
SleepCheck(e) ==
    /\ pc[e] = "sleep"
    /\ token # "running"
    /\ UNCHANGED lstate
    /\ sawStopped' = [sawStopped EXCEPT ![e] = @ \/ token = "stopped"]
    /\ pc' = [pc EXCEPT ![e] = "loop"]
    /\ sleepLeft' = [sleepLeft EXCEPT ![e] = 0]
    /\ UNCHANGED <<interval, nctAhead, nctMonotone>>
    /\ UNCHANGED <<ctlVars, storeVars, inputVars, envVars, calc, ledger, cyc, trace, exitPc>>

\* the sleep runs out with the token running at every check
SleepDone(e) ==
    /\ pc[e] = "sleep"
    /\ token = "running"
    /\ sleepLeft[e] = 0
    /\ UNCHANGED timeVars
    /\ UNCHANGED lstate
    /\ pc' = [pc EXCEPT ![e] = "loop"]
    /\ UNCHANGED <<ctlVars, storeVars, inputVars, envVars, calc>>
    /\ UNCHANGED <<ledger, cyc, trace, sawStopped, exitPc>>

\* SIGINT (or the 'q' key during the sleep): signal_handler writes stopped
\* and calls sys.exit(0); SystemExit is not an Exception, so the cycle's
\* except clause does not catch it; run_bot's finally writes stopped.
Interrupt(e) ==
    /\ ops > 0
    /\ ops' = ops - 1
    /\ InLoop(e)
    /\ token' = "stopped"
    /\ exitPc' = [exitPc EXCEPT ![e] =
                    IF pc[e] \in {"exec", "snap"} THEN pc[e] ELSE "none"]
    /\ pc' = [pc EXCEPT ![e] = "off"]
    /\ ledger' = [ledger EXCEPT ![e] = FreshLedger]
    /\ cyc' = [cyc EXCEPT ![e] = NoCycle]
    /\ resumeSeen' = FALSE
    /\ sleepLeft' = [sleepLeft EXCEPT ![e] = 0]
    /\ UNCHANGED <<interval, nctAhead, nctMonotone>>
    /\ UNCHANGED <<startChecked, startSpawned, slots>>
    /\ UNCHANGED <<storeVars, inputVars, envVars, calc, lstate, trace, sawStopped>>

\* a unit of time passes: next_cycle_time comes nearer, sleeps get shorter
Tick ==
    /\ nctAhead > 0 \/ \E e \in Engines : sleepLeft[e] > 0
    /\ nctAhead' = IF nctAhead > 0 THEN nctAhead - 1 ELSE 0
    /\ sleepLeft' = [e \in Engines |->
                        IF sleepLeft[e] > 0 THEN sleepLeft[e] - 1 ELSE 0]
    /\ UNCHANGED <<interval, nctMonotone>>
    /\ UNCHANGED <<ctlVars, storeVars, inputVars, envVars, calc, engVars>>

\* ------------------------------------------------------------ engine: run_analysis_cycle
\* what one fetch round may return: a price per coin, or none for a coin
Fetches ==
    LET low == CHOOSE p \in priceMenu : \A q \in priceMenu : p <= q
    IN {[c \in Coins |-> p] : p \in priceMenu}
       \cup {[c \in Coins |-> IF c = m THEN NoPrice ELSE low] : m \in Coins}
       \cup {[c \in Coins |-> NoPrice]}
\* account value the exchange reports (live mode; 0: an empty answer)
ExchangeBalances == {0, InitialBalance}

\* get_current_account_state: balance and num_positions of the summary
SummaryBalance(L, av) == IF isLive THEN av ELSE L.balance
SummaryNum(L) ==
    IF isLive THEN Cardinality({c \in Coins : exPos[c] # NoPos})
    ELSE Cardinality(OpenCoins(L))

\* a pre-flight check that looks at the balance alone
preflight_skip_balance_only(bal, num) == bal < minBalance
\* the pre-flight check: balance below the threshold and no open position
preflight_skip(bal, num) == bal < minBalance /\ num = 0

\* run_analysis_cycle up to the pre-flight check: market data is fetched
\* (no data at all ends the cycle), the paper ledger is checked for
\* liquidations, the pre-flight check may skip the analysis.
CycleBegin(e) ==
    /\ pc[e] = "begin"
    /\ \E cp \in Fetches, av \in ExchangeBalances :
        IF \A c \in Coins : cp[c] = NoPrice
        THEN /\ pc' = [pc EXCEPT ![e] = "end"]
             /\ cyc' = [cyc EXCEPT ![e].failed = TRUE]
             /\ UNCHANGED <<storeVars, inputVars, ledger>>
        ELSE LET liq == IF isLive
                        THEN [ledger |-> ledger[e], rows |-> positions]
                        ELSE check_liquidation(ledger[e], positions, cp, Coins)
                 bal == SummaryBalance(liq.ledger, av)
                 num == SummaryNum(liq.ledger)
                 skip == preflight_skip(bal, num)
             IN /\ ledger' = [ledger EXCEPT ![e] = liq.ledger]
                /\ positions' = liq.rows
                /\ lastStatus' = IF skip THEN "paused" ELSE lastStatus
                /\ pc' = [pc EXCEPT ![e] = IF skip THEN "end" ELSE "decide"]
                /\ cyc' = [cyc EXCEPT ![e] =
                              [NoCycle EXCEPT !.cp = cp, !.sumBalance = bal,
                                  !.sumNum = num, !.skip = skip,
                                  !.status = IF skip THEN "paused" ELSE "none"]]
                /\ UNCHANGED <<decisions, snap>>
    /\ UNCHANGED <<ctlVars, inputVars, envVars, calc, lstate, trace, sawStopped, exitPc>>
    /\ UNCHANGED timeVars

\* TradeDecision.leverage: Field(ge=0, le=20); an entry needs leverage > 0
leverage_ok(d) ==
    /\ d.lev >= 0
    /\ d.lev <= ParserMaxLeverage
    /\ d.signal \in EntrySignals => d.lev > 0

\* HyperliquidExecutor.get_max_leverage(symbol)
get_max_leverage(c) == exMaxLev[c]

\* run_analysis_cycle, leverage_limits[symbol]: the exchange's maximum in
\* live mode, 100 in paper mode
leverage_limits(c) == IF isLive THEN get_max_leverage(c) ELSE PaperLeverageLimit

\* parse_llm_response(response, leverage_limits=...): the parser src/ holds
\* takes the response only and checks the leverage against its own bounds
parse_llm_response(d, limit) == leverage_ok(d)

\* a hold branch that copies nothing
populate_hold_none(d, L) == d

\* the hold branch before the insert: a hold takes quantity and leverage
\* of the position held in the coin
populate_hold(d, L) ==
    IF d.signal # "hold" THEN d
    ELSE IF isLive /\ exPos[d.coin] # NoPos
         THEN [d EXCEPT !.qty = exPos[d.coin].qty, !.lev = exPos[d.coin].lev]
    ELSE IF ~isLive /\ L.pos[d.coin] # NoPos
         THEN [d EXCEPT !.qty = L.pos[d.coin].qty, !.lev = L.pos[d.coin].lev]
    ELSE d

\* the operator guidance the cycle puts into its prompt: the message of
\* get_active_user_input() (here: the type of that row)
user_guidance ==
    LET id == get_active_user_input(inputs)
    IN IF id = 0 THEN "none" ELSE inputs[id].type

\* run_analysis_cycle from the operator input and the LLM call to the
\* decision insert: no response, an unparsable response or a coin without
\* a price end the cycle; otherwise the decision row is inserted (pending).
CycleDecide(e) ==
    /\ pc[e] = "decide"
    /\ \/ /\ pc' = [pc EXCEPT ![e] = "end"]
          /\ cyc' = [cyc EXCEPT ![e].llm = TRUE, ![e].failed = TRUE,
                                 ![e].guidance = user_guidance]
          /\ UNCHANGED <<decisions, budget, trace>>
       \/ /\ budget > 0
          /\ \E d \in menu :
              IF ~parse_llm_response(d, leverage_limits(d.coin)) \/ cyc[e].cp[d.coin] = NoPrice
              THEN /\ pc' = [pc EXCEPT ![e] = "end"]
                   /\ cyc' = [cyc EXCEPT ![e].llm = TRUE, ![e].failed = TRUE,
                                          ![e].guidance = user_guidance]
                   /\ UNCHANGED <<decisions, budget, trace>>
              ELSE LET dd == populate_hold(d, ledger[e])
                   IN /\ decisions' = save_decision(decisions, dd,
                              validate_trade(dd, ledger[e], positions))
                      /\ budget' = budget - 1
                      /\ cyc' = [cyc EXCEPT ![e].did = Len(decisions) + 1,
                                             ![e].llm = TRUE,
                                             ![e].guidance = user_guidance]
                      /\ trace' = [trace EXCEPT ![e] = <<"decision">>]
                      /\ pc' = [pc EXCEPT ![e] = "exec"]
    /\ UNCHANGED <<ctlVars, inputVars, positions, snap, lastStatus>>
    /\ UNCHANGED <<calc, isLive, minBalance, menu, priceMenu, exMaxLev, exPos, pidSeq>>
    /\ UNCHANGED <<lstate, ledger, sawStopped, exitPc>>
    /\ UNCHANGED timeVars

\* update_decision_execution on the cycle's decision, as a store event
SetStatus(e, decs, status) == update_decision_execution(decs, cyc[e].did, status)

\* execute_trade, paper entry: can_open_position, open_position (ledger,
\* then the position row), status success; else status skipped.  dbFail:
\* the store raises in save_position_entry, which ends the cycle in its
\* except clause.
ExecPaperEntry(e, d, price, dbFail) ==
    LET side == IF d.signal = "buy_to_enter" THEN "long" ELSE "short"
        pid == pidSeq + 1
    IN IF can_open_position(ledger[e], d.qty)
       THEN /\ ledger' = [ledger EXCEPT ![e] =
                open_position(@, d.coin, side, price, d.qty, d.lev, pid)]
            /\ pidSeq' = pid
            /\ exPos' = exPos
            /\ IF dbFail
               THEN /\ trace' = [trace EXCEPT ![e] = @ \o <<"ledger">>]
                    /\ pc' = [pc EXCEPT ![e] = "end"]
                    /\ UNCHANGED <<positions, decisions>>
               ELSE /\ positions' = save_position_entry(positions, pid, d.coin,
                                        side, price, d.qty, d.lev, cyc[e].did)
                    /\ decisions' = SetStatus(e, decisions, "success")
                    /\ trace' = [trace EXCEPT ![e] =
                                    @ \o <<"ledger", "pos_open", "status">>]
                    /\ pc' = [pc EXCEPT ![e] = "snap"]
       ELSE /\ ~dbFail
            /\ decisions' = SetStatus(e, decisions, "skipped")
            /\ trace' = [trace EXCEPT ![e] = @ \o <<"status">>]
            /\ pc' = [pc EXCEPT ![e] = "snap"]
            /\ UNCHANGED <<ledger, positions, pidSeq, exPos>>

\* execute_trade, paper close: close_position (ledger credit, then the row
\* update, then the dict entry goes), status success; no position: skipped.
ExecPaperClose(e, d, price, dbFail) ==
    LET p == ledger[e].pos[d.coin]
    IN IF p # NoPos
       THEN /\ UNCHANGED <<pidSeq, exPos>>
            /\ IF dbFail
               THEN /\ ledger' = [ledger EXCEPT ![e] =
                                     close_position_credit(@, d.coin, price)]
                    /\ trace' = [trace EXCEPT ![e] = @ \o <<"ledger">>]
                    /\ pc' = [pc EXCEPT ![e] = "end"]
                    /\ UNCHANGED <<positions, decisions>>
               ELSE /\ ledger' = [ledger EXCEPT ![e] =
                                     close_position(@, d.coin, price)]
                    /\ positions' = db_close_position(positions, p.pid, price,
                                                      calculate_pnl(p, price))
                    /\ decisions' = SetStatus(e, decisions, "success")
                    /\ trace' = [trace EXCEPT ![e] =
                                    @ \o <<"ledger", "pos_close", "status">>]
                    /\ pc' = [pc EXCEPT ![e] = "snap"]
       ELSE /\ ~dbFail
            /\ decisions' = SetStatus(e, decisions, "skipped")
            /\ trace' = [trace EXCEPT ![e] = @ \o <<"status">>]
            /\ pc' = [pc EXCEPT ![e] = "snap"]
            /\ UNCHANGED <<ledger, positions, pidSeq, exPos>>

\* execute_trade, hold: status success, nothing else
ExecHold(e) ==
    /\ decisions' = SetStatus(e, decisions, "success")
    /\ trace' = [trace EXCEPT ![e] = @ \o <<"status">>]
    /\ pc' = [pc EXCEPT ![e] = "snap"]
    /\ UNCHANGED <<ledger, positions, pidSeq, exPos>>

\* what the exchange may answer to an order
LiveOutcomes == {"filled", "error", "unclear", "notok"}
\* A leverage handed to the exchange as the decision carries it.
uncapped_leverage(lev) == lev

\* safe_leverage = min(int(decision.leverage), 20)
LiveLeverageCap == 20
safe_leverage(lev) == IF lev < LiveLeverageCap THEN lev ELSE LiveLeverageCap

\* execute_trade, live entry: market_open_usd; a fill is logged through
\* TradingLogger.log_position_entry (which takes no decision id) and the
\* status set success; an error, an unclear answer or a failed call set it
\* failed.
ExecLiveEntry(e, d, price, outcome, dbFail) ==
    LET side == IF d.signal = "buy_to_enter" THEN "long" ELSE "short"
        pid == pidSeq + 1
    IN /\ UNCHANGED ledger
       /\ IF outcome = "filled"
          THEN /\ exPos' = [exPos EXCEPT ![d.coin] =
                              [pid |-> 0, side |-> side, entry |-> price,
                               qty |-> d.qty, lev |-> safe_leverage(d.lev)]]
               /\ pidSeq' = pid
               /\ IF dbFail
                  THEN /\ trace' = [trace EXCEPT ![e] = @ \o <<"exchange">>]
                       /\ pc' = [pc EXCEPT ![e] = "end"]
                       /\ UNCHANGED <<positions, decisions>>
                  ELSE /\ positions' = save_position_entry(positions, pid,
                                           d.coin, side, price, d.qty, d.lev, 0)
                       /\ decisions' = SetStatus(e, decisions, "success")
                       /\ trace' = [trace EXCEPT ![e] =
                                       @ \o <<"exchange", "pos_open", "status">>]
                       /\ pc' = [pc EXCEPT ![e] = "snap"]
          ELSE /\ ~dbFail
               /\ decisions' = SetStatus(e, decisions, "failed")
               /\ trace' = [trace EXCEPT ![e] = @ \o <<"status">>]
               /\ pc' = [pc EXCEPT ![e] = "snap"]
               /\ UNCHANGED <<positions, pidSeq, exPos>>

\* realized P&L of the live close of a tracked row
live_realized_pnl(row, price) ==
    IF row.side = "long" THEN ((price - row.entry) * row.qty * row.lev) \div row.entry
    ELSE IF row.side = "short"
         THEN ((row.entry - price) * row.qty * row.lev) \div row.entry
    ELSE 0

\* HyperliquidExecutor.get_position(coin), by the body src/ holds under the
\* name get_position_info: the exchange's position of the coin, or none
get_position(ex, coin) == ex[coin]

\* execute_trade, live close: market_close returns a result when the
\* exchange holds a position of the coin and answers 'ok', whether the
\* closing order was filled or not; on a result the status is set success
\* first, then the store follows: the newest open row of the coin is
\* closed, or (no such row) a row is inserted for the external position and
\* closed, with the values get_position reports (side from the size,
\* quantity_usd = |size| * entry_price, realized = unrealized P&L), or with
\* placeholder values when it reports no position.  No result: status
\* failed.
ExecLiveClose(e, d, price, outcome, dbFail) ==
    LET open == {i \in get_open_positions(positions) : positions[i].coin = d.coin}
        pid == pidSeq + 1
        filled == outcome = "filled"
        ex == IF filled THEN [exPos EXCEPT ![d.coin] = NoPos] ELSE exPos
        done == IF filled THEN <<"exchange", "status">> ELSE <<"status">>
        pd == get_position(ex, d.coin)
    IN /\ UNCHANGED ledger
       /\ IF outcome # "notok" /\ exPos[d.coin] # NoPos
          THEN /\ exPos' = ex
               /\ decisions' = SetStatus(e, decisions, "success")
               /\ IF dbFail
                  THEN /\ trace' = [trace EXCEPT ![e] = @ \o done]
                       /\ pc' = [pc EXCEPT ![e] = "end"]
                       /\ UNCHANGED <<positions, pidSeq>>
                  ELSE IF open # {}
                  THEN LET i == CHOOSE j \in open : \A k \in open : j >= k
                       IN /\ positions' = db_close_position(positions,
                                 positions[i].pid, price,
                                 live_realized_pnl(positions[i], price))
                          /\ trace' = [trace EXCEPT ![e] =
                                 @ \o done \o <<"pos_close">>]
                          /\ pc' = [pc EXCEPT ![e] = "snap"]
                          /\ UNCHANGED pidSeq
                  ELSE /\ positions' =
                            IF pd # NoPos
                            THEN db_close_position(
                                     save_position_entry(positions, pid, d.coin,
                                         pd.side, pd.entry, pd.qty * pd.lev,
                                         pd.lev, cyc[e].did),
                                     pid, price, calculate_pnl(pd, price))
                            ELSE db_close_position(
                                     save_position_entry(positions, pid, d.coin,
                                         "unknown", price, d.qty, d.lev,
                                         cyc[e].did),
                                     pid, price, 0)
                       /\ pidSeq' = pid
                       /\ trace' = [trace EXCEPT ![e] =
                              @ \o done \o <<"pos_open", "pos_close">>]
                       /\ pc' = [pc EXCEPT ![e] = "snap"]
          ELSE /\ ~dbFail
               /\ decisions' = SetStatus(e, decisions, "failed")
               /\ trace' = [trace EXCEPT ![e] = @ \o <<"status">>]
               /\ pc' = [pc EXCEPT ![e] = "snap"]
               /\ UNCHANGED <<positions, pidSeq, exPos>>

\* execute_trade as a whole, on the decision row just inserted
CycleExecute(e) ==
    /\ pc[e] = "exec"
    /\ LET d == decisions[cyc[e].did]
           price == cyc[e].cp[d.coin]
       IN \E dbFail \in BOOLEAN, outcome \in LiveOutcomes :
            LET rejected == isLive /\ d.signal \in EntrySignals /\ outcome = "error"
            IN /\ IF d.signal = "hold" THEN ExecHold(e)
                  ELSE IF d.signal = "close"
                       THEN IF isLive
                            THEN ExecLiveClose(e, d, price, outcome, dbFail)
                            ELSE ExecPaperClose(e, d, price, dbFail)
                  ELSE IF isLive THEN ExecLiveEntry(e, d, price, outcome, dbFail)
                       ELSE ExecPaperEntry(e, d, price, dbFail)
               \* a rejected live order also appends the status event 'error'
               /\ lastStatus' = IF rejected THEN "error" ELSE lastStatus
               /\ cyc' = [cyc EXCEPT
                            ![e].status = IF rejected THEN "error" ELSE @,
                            ![e].failed = (pc'[e] = "end")]
    /\ UNCHANGED <<calc, exMaxLev, ctlVars, inputVars, snap, isLive, minBalance, budget, menu,
                   priceMenu>>
    /\ UNCHANGED <<lstate, sawStopped, exitPc>>
    /\ UNCHANGED timeVars

\* end of the cycle: the account snapshot (paper: save_state of the ledger;
\* live: the summary taken before the execution, the exchange reporting no
\* unrealized P&L) and the status event
CycleSnapshot(e) ==
    /\ pc[e] = "snap"
    /\ snap' = IF isLive
               THEN save_account_state(snap, cyc[e].sumBalance, cyc[e].sumBalance,
                                       0, 0, cyc[e].sumNum)
               ELSE save_account_state(snap, ledger[e].balance,
                                       get_total_equity(ledger[e], cyc[e].cp),
                                       get_unrealized_pnl(ledger[e], cyc[e].cp),
                                       ledger[e].realized,
                                       Cardinality(OpenCoins(ledger[e])))
    /\ lastStatus' = "running"
    /\ cyc' = [cyc EXCEPT ![e].status = "running"]
    /\ trace' = [trace EXCEPT ![e] = @ \o <<"snapshot">>]
    /\ pc' = [pc EXCEPT ![e] = "end"]
    /\ UNCHANGED <<ctlVars, inputVars, envVars, calc, decisions, positions>>
    /\ UNCHANGED <<lstate, ledger, sawStopped, exitPc>>
    /\ UNCHANGED timeVars

\* ------------------------------------------------------------ specification
Next ==
    \/ ApiStartCheck
    \/ ApiStartSpawn
    \/ ApiStartWrite
    \/ ApiPause
    \/ ApiStop
    \/ ApiResume
    \/ CliLaunch
    \/ ApiUserInputPost
    \/ ApiUserInputDeleteRead
    \/ ApiUserInputDeleteArchive
    \/ ApiBotConfig
    \/ Tick
    \/ \E e \in Engines : BootCheck(e)
    \/ \E e \in Engines : EngineInit(e)
    \/ \E e \in Engines : LoopRead(e)
    \/ \E e \in Engines : WritePaused(e)
    \/ \E e \in Engines : PauseWait(e)
    \/ \E e \in Engines : CycleBegin(e)
    \/ \E e \in Engines : CycleDecide(e)
    \/ \E e \in Engines : CycleExecute(e)
    \/ \E e \in Engines : CycleSnapshot(e)
    \/ \E e \in Engines : CycleEnd(e)
    \/ \E e \in Engines : SleepCheck(e)
    \/ \E e \in Engines : SleepDone(e)
    \/ \E e \in Engines : Interrupt(e)

Spec == Init /\ [][Next]_vars

SpecCtl == InitCtl /\ [][Next]_vars

SpecOne == InitOne /\ [][Next]_vars

SpecS1 == InitS1 /\ [][Next]_vars

\* One engine slot, live mode, one decision about BTC, and an exchange
\* whose maximum leverage for a coin is 1 or 20.
InitLev ==
    /\ InitStore
    /\ calc = NoCalc
    /\ isLive = TRUE
    /\ minBalance = DefaultMinBalance
    /\ budget = MaxDecisionsCtl
    /\ menu = BtcDecisions
    /\ priceMenu = CtlPrices
    /\ exMaxLev \in [Coins -> ExchangeMaxLeverages]
    /\ ops = MaxOps
    /\ slots = {1}

SpecLev == InitLev /\ [][Next]_vars

\* ------------------------------------------------ a store left by earlier runs
\* balances of the latest account snapshot an engine may start from
LowBalances == {10, 50}
\* prices around an entry at 100 with leverage 5: past the liquidation
\* price of a long (80), a partial loss, the entry price
LowPrices == {70, 90, 100}
\* the answers of the LLM in the balance specification
LowDecisions ==
    [coin : {"BTC"}, signal : EntrySignals, qty : Quantities, lev : {5}]
    \cup [coin : {"BTC"}, signal : {"hold", "close"}, qty : {0}, lev : {0}]

\* One engine slot, paper mode, one decision about BTC, and a store that
\* earlier runs left: a snapshot with a small balance and at most one open
\* BTC long entered at 100 with leverage 5.
InitLow ==
    /\ token = "stopped"
    /\ decisions = <<>>
    /\ \E b \in LowBalances, held \in BOOLEAN :
          /\ positions = IF held
                            THEN save_position_entry(<<>>, 1, "BTC", "long",
                                                     100, 20, 5, 0)
                            ELSE <<>>
          /\ pidSeq = IF held THEN 1 ELSE 0
          /\ snap = save_account_state(NoSnap, b, b, 0, 0,
                                       IF held THEN 1 ELSE 0)
    /\ lastStatus = "none"
    /\ inputs = <<>>
    /\ delPending = 0
    /\ exPos = [c \in Coins |-> NoPos]
    /\ startChecked = 0
    /\ startSpawned = 0
    /\ pc = [e \in Engines |-> "off"]
    /\ lstate = [e \in Engines |-> "stopped"]
    /\ ledger = [e \in Engines |-> FreshLedger]
    /\ cyc = [e \in Engines |-> NoCycle]
    /\ trace = [e \in Engines |-> <<>>]
    /\ sawStopped = [e \in Engines |-> FALSE]
    /\ exitPc = [e \in Engines |-> "none"]
    /\ resumeSeen = FALSE
    /\ interval = DefaultInterval
    /\ nctAhead = 0
    /\ sleepLeft = [e \in Engines |-> 0]
    /\ nctMonotone = TRUE
    /\ calc = NoCalc
    /\ isLive = FALSE
    /\ minBalance = DefaultMinBalance
    /\ budget = MaxDecisionsCtl
    /\ menu = LowDecisions
    /\ priceMenu = LowPrices
    /\ exMaxLev = [c \in Coins |-> ParserMaxLeverage]
    /\ ops = MaxOps
    /\ slots = {1}

SpecLow == InitLow /\ [][Next]_vars

\* One engine slot, paper mode, the engine process scheduled fairly.
InitFair ==
    /\ InitStore
    /\ calc = NoCalc
    /\ isLive = FALSE
    /\ minBalance = DefaultMinBalance
    /\ budget = MaxDecisionsCtl
    /\ menu = LLMDecisions
    /\ priceMenu = Prices
    /\ exMaxLev = [c \in Coins |-> ParserMaxLeverage]
    /\ ops = MaxOpsCtl
    /\ slots = {1}

\* a step of an engine process (the operating system keeps scheduling it;
\* time keeps passing)
EngineStep(e) ==
    \/ BootCheck(e) \/ EngineInit(e) \/ LoopRead(e) \/ WritePaused(e)
    \/ PauseWait(e) \/ CycleBegin(e) \/ CycleDecide(e) \/ CycleExecute(e)
    \/ CycleSnapshot(e) \/ CycleEnd(e) \/ SleepCheck(e) \/ SleepDone(e)

SpecFair ==
    /\ InitFair
    /\ [][Next]_vars
    /\ \A e \in Engines : WF_vars(EngineStep(e))
    /\ WF_vars(Tick)

\* ------------------------------------------------------------ the pure
\* functions on their own: calculate_liquidation_price and calculate_pnl
\* called with arguments of the caller's choice, as the unit test does.
MaxEntryUnits == 4
\* entry prices every leverage of LiqLeverages divides
LiqEntries == {30 * k : k \in 1..MaxEntryUnits}
LiqLeverages == {-1, 0, 1, 2, 3, 5, 10}
LiqSides == {"long", "short"}

InitLiq ==
    /\ InitStore
    /\ isLive = FALSE
    /\ minBalance = DefaultMinBalance
    /\ budget = 0
    /\ menu = {}
    /\ priceMenu = {}
    /\ exMaxLev = [c \in Coins |-> ParserMaxLeverage]
    /\ ops = 0
    /\ slots = {}
    /\ calc \in [stage : {"args"}, entry : LiqEntries, lev : LiqLeverages,
                 side : LiqSides, qty : Quantities, liq : {0}, pnl : {0}]

\* calculate_liquidation_price(entry, leverage, side): the price, or the
\* ValueError of a leverage that is not positive
CallLiquidationPrice ==
    /\ calc.stage = "args"
    /\ LET r == calculate_liquidation_price(calc.entry, calc.lev, calc.side)
       IN calc' = IF ToString(r) = ToString("ValueError")
                  THEN [calc EXCEPT !.stage = "raised"]
                  ELSE [calc EXCEPT !.stage = "priced", !.liq = r]
    /\ UNCHANGED <<ctlVars, storeVars, inputVars, envVars, engVars, timeVars>>

\* Position.calculate_pnl of a position with these arguments at the price
\* calculate_liquidation_price returned
CallPnl ==
    /\ calc.stage = "priced"
    /\ calc' = [calc EXCEPT !.stage = "done",
                            !.pnl = calculate_pnl([pid |-> 0, side |-> calc.side,
                                                   entry |-> calc.entry,
                                                   qty |-> calc.qty,
                                                   lev |-> calc.lev], calc.liq)]
    /\ UNCHANGED <<ctlVars, storeVars, inputVars, envVars, engVars, timeVars>>

NextLiq ==
    \/ CallLiquidationPrice
    \/ CallPnl

SpecLiq == InitLiq /\ [][NextLiq]_vars

\* ------------------------------------------------------------ the parser
\* on its own: ResponseParser.parse_trade_decision on a response of the
\* LLM.  Confidence is in hundredths; an absent exit-plan price (None) is
\* the empty set, a present one the set of its value.
QuantityLimit == 1000000
RawQuantities == {-1, 0, 50, QuantityLimit + 1}
RawLeverages == {-1, 0, 2, ParserMaxLeverage + 1}
RawConfidences == {-1, 50, 101}
RawTargets == {{}, {-5}, {90}, {110}}
\* wellFormed: a JSON object is extracted, signal is one of the four, coin
\* has three characters or more and the justification ten or more
RawResponses ==
    [wellFormed : BOOLEAN, signal : Signals, qty : RawQuantities,
     lev : RawLeverages, conf : RawConfidences, sl : RawTargets,
     pt : RawTargets]

\* TradeDecision(**json_data): the Field constraints and field validators,
\* a ValidationError being the None of parse_trade_decision (FALSE here)
parse_trade_decision(r) ==
    /\ r.wellFormed
    /\ r.qty >= 0
    /\ ~(r.qty > QuantityLimit)
    /\ r.lev >= 0
    /\ r.lev <= ParserMaxLeverage
    /\ ~(r.signal \in EntrySignals /\ r.lev <= 0)
    /\ r.conf >= 0
    /\ r.conf <= 100
    /\ \A v \in r.sl \cup r.pt : ~(v < 0)

InitParse ==
    /\ InitStore
    /\ isLive = FALSE
    /\ minBalance = DefaultMinBalance
    /\ budget = 0
    /\ menu = {}
    /\ priceMenu = {}
    /\ exMaxLev = [c \in Coins |-> ParserMaxLeverage]
    /\ ops = 0
    /\ slots = {}
    /\ calc \in [stage : {"response"}, r : RawResponses]

\* parse_llm_response(response): the decision, or None
CallParse ==
    /\ calc.stage = "response"
    /\ calc' = [calc EXCEPT !.stage = IF parse_trade_decision(calc.r)
                                      THEN "parsed" ELSE "rejected"]
    /\ UNCHANGED <<ctlVars, storeVars, inputVars, envVars, engVars, timeVars>>

SpecParse == InitParse /\ [][CallParse]_vars

\* ------------------------------------------------------------ the live
\* entry on its own: execute_trade called in live mode with an entry
\* decision of any leverage, up to the order it hands to the exchange.
MaxOrderLeverage == 25
OrderLeverages == 1..MaxOrderLeverage

InitOrder ==
    /\ InitStore
    /\ isLive = TRUE
    /\ minBalance = DefaultMinBalance
    /\ budget = 0
    /\ menu = {}
    /\ priceMenu = {}
    /\ exMaxLev = [c \in Coins |-> ParserMaxLeverage]
    /\ ops = 0
    /\ slots = {}
    /\ calc \in [stage : {"decision"}, coin : Coins, signal : EntrySignals,
                 qty : Quantities, lev : OrderLeverages, price : Prices,
                 passed : {0}]

\* execute_trade, live entry, up to executor.market_open_usd(coin, is_buy,
\* usd_amount, current_price, leverage=safe_leverage)
CallMarketOpen ==
    /\ calc.stage = "decision"
    /\ calc' = [calc EXCEPT !.stage = "ordered",
                            !.passed = safe_leverage(calc.lev)]
    /\ UNCHANGED <<ctlVars, storeVars, inputVars, envVars, engVars, timeVars>>

SpecOrder == InitOrder /\ [][CallMarketOpen]_vars

\* ------------------------------------------------------------ the risk
\* validator on its own: RiskManager(account).validate_trade(decision,
\* price) on an account, a store and an operator configuration of the
\* caller's choice, as the unit tests do.
RiskBalances == {10, InitialBalance}
\* bot_settings max_margin_usd and max_open_positions the operator may set
MaxMargins == {10, 1000}
MaxOpenPositions == {1, 3}
\* decisions about BTC: entries at and above the limits of settings, hold, close
RiskDecisions ==
    [coin : {"BTC"}, signal : EntrySignals, qty : Quantities, lev : {2, 10}]
    \cup [coin : {"BTC"}, signal : {"hold", "close"}, qty : {0}, lev : {0}]
\* a position an account holds
HeldPos == [pid |-> 1, side |-> "long", entry |-> 100, qty |-> 20, lev |-> 2]
\* a closed row with a realized P&L and the day of its exit_time
ClosedRow(pnl, day) ==
    [pid |-> 9, coin |-> "ETH", side |-> "long", entry |-> 100, qty |-> 20,
     lev |-> 2, did |-> 0, status |-> "closed", exit |-> 100, pnl |-> pnl,
     exitDay |-> day]
\* what was closed before the call: nothing; a loss beyond the daily limit,
\* today or the day before; losses of today that reach the limit but are
\* not beyond it, and two that are beyond it together
LossHistories ==
    {<<>>, <<ClosedRow(-30, Today)>>, <<ClosedRow(-30, Today - 1)>>,
     <<ClosedRow(-20, Today)>>, <<ClosedRow(-15, Today), ClosedRow(-15, Today)>>}

\* the account of the call
RiskAccount(c) ==
    [balance |-> c.balance, realized |-> 0,
     pos |-> [x \in Coins |-> IF c.held[x] THEN HeldPos ELSE NoPos]]

InitRisk ==
    /\ InitStore
    /\ isLive = FALSE
    /\ minBalance = DefaultMinBalance
    /\ budget = 0
    /\ menu = {}
    /\ priceMenu = {}
    /\ exMaxLev = [c \in Coins |-> ParserMaxLeverage]
    /\ ops = 0
    /\ slots = {}
    /\ calc \in [stage : {"trade"}, d : RiskDecisions, balance : RiskBalances,
                 held : [Coins -> BOOLEAN], rows : LossHistories,
                 maxMargin : MaxMargins, maxOpen : MaxOpenPositions,
                 levLimit : ExchangeMaxLeverages, ok : {FALSE}]

\* RiskManager.validate_trade(decision, current_price)
CallValidateTrade ==
    /\ calc.stage = "trade"
    /\ calc' = [calc EXCEPT !.stage = "validated",
                            !.ok = validate_trade(calc.d, RiskAccount(calc),
                                                  calc.rows)]
    /\ UNCHANGED <<ctlVars, storeVars, inputVars, envVars, engVars, timeVars>>

SpecRisk == InitRisk /\ [][CallValidateTrade]_vars

\* ------------------------------------------------------------ the store's
\* close_position on its own: calls with a position id, an exit price and
\* a realized P&L of the caller's choice on a store that holds one row.
MaxCloseCalls == 2
ClosePids == {1, 2}
ClosePrices == {100, 150, 200}
ClosePnls == {-5, 0, 5}

InitClose ==
    /\ token = "stopped"
    /\ decisions = <<>>
    /\ \E c \in Coins, side \in {"long", "short"}, q \in Quantities :
          positions = save_position_entry(<<>>, 1, c, side, 100, q, 2, 0)
    /\ snap = NoSnap
    /\ lastStatus = "none"
    /\ inputs = <<>>
    /\ delPending = 0
    /\ exPos = [c \in Coins |-> NoPos]
    /\ pidSeq = 1
    /\ startChecked = 0
    /\ startSpawned = 0
    /\ pc = [e \in Engines |-> "off"]
    /\ lstate = [e \in Engines |-> "stopped"]
    /\ ledger = [e \in Engines |-> FreshLedger]
    /\ cyc = [e \in Engines |-> NoCycle]
    /\ trace = [e \in Engines |-> <<>>]
    /\ sawStopped = [e \in Engines |-> FALSE]
    /\ exitPc = [e \in Engines |-> "none"]
    /\ resumeSeen = FALSE
    /\ interval = DefaultInterval
    /\ nctAhead = 0
    /\ sleepLeft = [e \in Engines |-> 0]
    /\ nctMonotone = TRUE
    /\ isLive = FALSE
    /\ minBalance = DefaultMinBalance
    /\ budget = 0
    /\ menu = {}
    /\ priceMenu = {}
    /\ exMaxLev = [c \in Coins |-> ParserMaxLeverage]
    /\ ops = 0
    /\ slots = {}
    /\ calc = [stage |-> "store", calls |-> 0, pid |-> 0, ret |-> FALSE]

\* database.close_position(position_id, exit_price, realized_pnl): the
\* UPDATE, and cursor.rowcount > 0 as the result
CallClosePosition ==
    /\ calc.stage = "store"
    /\ calc.calls < MaxCloseCalls
    /\ \E pid \in ClosePids, exit \in ClosePrices, pnl \in ClosePnls :
          /\ positions' = db_close_position(positions, pid, exit, pnl)
          /\ calc' = [calc EXCEPT !.calls = @ + 1, !.pid = pid,
                          !.ret = \E i \in 1..Len(positions) :
                                      positions[i].pid = pid]
    /\ UNCHANGED <<ctlVars, decisions, snap, lastStatus, inputVars, envVars,
                   engVars, timeVars>>

SpecClose == InitClose /\ [][CallClosePosition]_vars

\* ------------------------------------------------ the dashboard's requests
\* requests a behaviour of the request specification makes
MaxApiCalls == 4

\* a handler that never refuses
api_bot_resume_unchecked(tok, running) == [code |-> 200, token |-> "running"]

\* api_bot_resume: 400 unless is_bot_process_running(), else
\* write_bot_state('running')
api_bot_resume(tok, running) ==
    IF running THEN [code |-> 200, token |-> "running"]
               ELSE [code |-> 400, token |-> tok]

\* api_bot_start: 400 when is_bot_process_running(), else Popen and
\* write_bot_state('running')
api_bot_start(tok, running) ==
    IF running THEN [code |-> 400, token |-> tok, spawn |-> FALSE]
               ELSE [code |-> 200, token |-> "running", spawn |-> TRUE]

\* Any token and any set of live engine processes, one request at a time.
InitApi ==
    /\ token \in TokenValues
    /\ decisions = <<>>
    /\ positions = <<>>
    /\ snap = NoSnap
    /\ lastStatus = "none"
    /\ inputs = <<>>
    /\ delPending = 0
    /\ exPos = [c \in Coins |-> NoPos]
    /\ pidSeq = 0
    /\ startChecked = 0
    /\ startSpawned = 0
    /\ pc \in [Engines -> {"off", "boot"}]
    /\ lstate = [e \in Engines |-> "stopped"]
    /\ ledger = [e \in Engines |-> FreshLedger]
    /\ cyc = [e \in Engines |-> NoCycle]
    /\ trace = [e \in Engines |-> <<>>]
    /\ sawStopped = [e \in Engines |-> FALSE]
    /\ exitPc = [e \in Engines |-> "none"]
    /\ resumeSeen = FALSE
    /\ interval = DefaultInterval
    /\ nctAhead = 0
    /\ sleepLeft = [e \in Engines |-> 0]
    /\ nctMonotone = TRUE
    /\ isLive = FALSE
    /\ minBalance = DefaultMinBalance
    /\ budget = 0
    /\ menu = {}
    /\ priceMenu = {}
    /\ exMaxLev = [c \in Coins |-> ParserMaxLeverage]
    /\ ops = 0
    /\ slots = Engines
    /\ calc = [stage |-> "api", calls |-> 0, req |-> "none", code |-> 0]

\* POST /api/bot/start, the whole handler
CallApiStart ==
    /\ calc.stage = "api"
    /\ calc.calls < MaxApiCalls
    /\ LET r == api_bot_start(token, is_bot_process_running) IN
          /\ token' = r.token
          /\ IF r.spawn
                THEN \E e \in FreeSlots : pc' = [pc EXCEPT ![e] = "boot"]
                ELSE pc' = pc
          /\ calc' = [calc EXCEPT !.calls = @ + 1, !.req = "start",
                                  !.code = r.code]
    /\ UNCHANGED <<startChecked, startSpawned, slots, ops, resumeSeen>>
    /\ UNCHANGED <<storeVars, inputVars, envVars>>
    /\ UNCHANGED <<lstate, ledger, cyc, trace, sawStopped, exitPc, timeVars>>

\* POST /api/bot/resume, the whole handler
CallApiResume ==
    /\ calc.stage = "api"
    /\ calc.calls < MaxApiCalls
    /\ LET r == api_bot_resume(token, is_bot_process_running) IN
          /\ token' = r.token
          /\ calc' = [calc EXCEPT !.calls = @ + 1, !.req = "resume",
                                  !.code = r.code]
    /\ UNCHANGED <<startChecked, startSpawned, slots, ops, resumeSeen>>
    /\ UNCHANGED <<storeVars, inputVars, envVars, engVars, timeVars>>

\* POST /api/bot/pause, the whole handler
CallApiPause ==
    /\ calc.stage = "api"
    /\ calc.calls < MaxApiCalls
    /\ token' = "paused"
    /\ calc' = [calc EXCEPT !.calls = @ + 1, !.req = "pause", !.code = 200]
    /\ UNCHANGED <<startChecked, startSpawned, slots, ops, resumeSeen>>
    /\ UNCHANGED <<storeVars, inputVars, envVars, engVars, timeVars>>

\* POST /api/bot/stop, the whole handler
CallApiStop ==
    /\ calc.stage = "api"
    /\ calc.calls < MaxApiCalls
    /\ token' = "stopped"
    /\ calc' = [calc EXCEPT !.calls = @ + 1, !.req = "stop", !.code = 200]
    /\ UNCHANGED <<startChecked, startSpawned, slots, ops, resumeSeen>>
    /\ UNCHANGED <<storeVars, inputVars, envVars, engVars, timeVars>>

NextApi == CallApiStart \/ CallApiResume \/ CallApiPause \/ CallApiStop

SpecApi == InitApi /\ [][NextApi]_vars

\* ------------------------------------------------ the bot_config requests
\* POST requests a behaviour of the settings specification makes
MaxConfigCalls == 2

ConfigFields == {"min_margin_usd", "min_balance_threshold", "max_margin_usd",
                 "execution_interval_seconds", "max_open_positions"}
FloatFields == {"min_margin_usd", "min_balance_threshold", "max_margin_usd"}

\* What a JSON field carries: nothing, a number, a not-a-number ("nan"
\* as a string, or the NaN literal json.loads accepts), any other text.
Absent == [k |-> "absent", v |-> 0]
Num(n) == [k |-> "num", v |-> n]
NaN == [k |-> "nan", v |-> 0]
Text == [k |-> "text", v |-> 0]
ValueError == [k |-> "error", v |-> 0]

\* float(x): a number, nan for "nan", ValueError for other text
py_float(raw) == IF raw.k = "text" THEN ValueError ELSE raw
\* int(x): a number, ValueError for nan ("nan" or float nan) and other text
py_int(raw) == IF raw.k = "num" THEN raw ELSE ValueError

\* get_bot_config's defaults
DefaultConfig ==
    [min_margin_usd |-> Num(1), min_balance_threshold |-> Num(1),
     max_margin_usd |-> Num(1000), execution_interval_seconds |-> Num(600),
     max_open_positions |-> Num(3)]

\* the bodies a request may carry
ConfigRequests ==
    [min_margin_usd : {Absent, Num(0), Num(2), NaN},
     min_balance_threshold : {Absent, Num(-1), Num(0), NaN},
     max_margin_usd : {Absent, Num(0), Num(500)},
     execution_interval_seconds : {Absent, Num(9), Num(10), Text},
     max_open_positions : {Absent, Num(0), Num(5), Num(11)}]

\* the converted value of a field of the body
config_value(f, raw) == IF f \in FloatFields THEN py_float(raw) ELSE py_int(raw)

\* the handler's test of one converted value: TRUE when it answers 400.
\* Every comparison of Python with nan is False.
config_refuses(f, val) ==
    /\ val.k = "num"
    /\ CASE f = "min_margin_usd" -> val.v <= 0
         [] f = "min_balance_threshold" -> val.v < 0
         [] f = "max_margin_usd" -> val.v <= 0
         [] f = "execution_interval_seconds" -> val.v < 10
         [] f = "max_open_positions" -> val.v < 1 \/ val.v > 10

\* update_bot_config: set_bot_setting(key, str(value)) for each key;
\* get_bot_config reads float(str(x)) and int(str(x)) back, which for a
\* float, nan included, and for an int is the value written
update_bot_config(cfg, updates) ==
    [f \in ConfigFields |-> IF updates[f].k = "absent" THEN cfg[f]
                                                        ELSE updates[f]]

\* api_bot_config, POST: every field present is converted and tested
\* before update_bot_config is called
api_bot_config(cfg, data) ==
    LET present == {f \in ConfigFields : data[f].k # "absent"}
        val == [f \in ConfigFields |-> IF f \in present
                                          THEN config_value(f, data[f])
                                          ELSE Absent]
    IN  IF \E f \in present : val[f].k = "error" \/ config_refuses(f, val[f])
           THEN [code |-> 400, cfg |-> cfg]
        ELSE IF present = {}
           THEN [code |-> 400, cfg |-> cfg]
        ELSE [code |-> 200, cfg |-> update_bot_config(cfg, val)]

\* An initialised store with no setting written, and no request made.
InitConfig ==
    /\ InitStore
    /\ isLive = FALSE
    /\ minBalance = DefaultMinBalance
    /\ budget = 0
    /\ menu = {}
    /\ priceMenu = {}
    /\ exMaxLev = [c \in Coins |-> ParserMaxLeverage]
    /\ ops = 0
    /\ slots = {}
    /\ calc = [stage |-> "config", calls |-> 0, cfg |-> DefaultConfig,
               before |-> DefaultConfig, data |-> [f \in ConfigFields |-> Absent],
               code |-> 0]

\* POST /api/bot_config, the whole handler
CallBotConfig ==
    /\ calc.stage = "config"
    /\ calc.calls < MaxConfigCalls
    /\ \E data \in ConfigRequests :
          LET r == api_bot_config(calc.cfg, data) IN
          calc' = [calc EXCEPT !.calls = @ + 1, !.before = calc.cfg,
                               !.data = data, !.cfg = r.cfg, !.code = r.code]
    /\ UNCHANGED <<ctlVars, storeVars, inputVars, envVars, engVars, timeVars>>

SpecConfig == InitConfig /\ [][CallBotConfig]_vars

\* ------------------------------------------------ reset and init of a store
\* calls a behaviour of the reset specification makes
MaxResetCalls == 3
\* rows a table holds before the first call, at most
MaxTableRows == 1

\* the tables reset_database empties, as row counts
DataTables == {"decisions", "account_state", "positions", "bot_status",
               "user_inputs"}
\* the rows init_database puts into bot_settings
SettingsRows == 6

\* sqlite3's legacy transaction control: a transaction is opened before a
\* DELETE and stays open until commit or rollback
execute_deletes(db) ==
    [db EXCEPT !.rows = [t \in DataTables |-> 0], !.inTxn = TRUE]

\* cursor.execute("VACUUM"): sqlite refuses it inside a transaction
vacuum_raises(db) == db.inTxn

\* reset_database(preserve_schema): the result and the store it leaves.
\* get_db_connection commits when the block ends and rolls back when it
\* raises; the DROP statements are committed one by one, and sqlite refuses
\* to drop sqlite_sequence.
reset_database(db, preserve_schema) ==
    IF db.schema # "full"
       THEN [ret |-> FALSE, db |-> db]
    ELSE IF preserve_schema
       THEN IF vacuum_raises(execute_deletes(db))
               THEN [ret |-> FALSE, db |-> db]
               ELSE [ret |-> TRUE,
                     db |-> [execute_deletes(db) EXCEPT !.inTxn = FALSE]]
    ELSE [ret |-> FALSE,
          db |-> [db EXCEPT !.schema = "none",
                            !.rows = [t \in DataTables |-> 0]]]

\* init_database: CREATE TABLE IF NOT EXISTS and INSERT OR IGNORE on a
\* store that has its tables; on one without user_inputs the migration of
\* that table raises before the table is created
init_database(db) ==
    IF db.schema = "full"
       THEN [ret |-> TRUE, db |-> db]
       ELSE [ret |-> FALSE, db |-> [db EXCEPT !.schema = "partial"]]

\* A store with its tables, each holding some rows, and no call made.
InitReset ==
    /\ InitStore
    /\ isLive = FALSE
    /\ minBalance = DefaultMinBalance
    /\ budget = 0
    /\ menu = {}
    /\ priceMenu = {}
    /\ exMaxLev = [c \in Coins |-> ParserMaxLeverage]
    /\ ops = 0
    /\ slots = {}
    /\ \E rows \in [DataTables -> 0..MaxTableRows] :
          calc = [stage |-> "reset", calls |-> 0, op |-> "none",
                  prevOp |-> "none", ret |-> FALSE,
                  db |-> [schema |-> "full", rows |-> rows,
                          settings |-> SettingsRows, inTxn |-> FALSE]]

\* reset_database(preserve_schema), called from outside the engine
CallResetDatabase ==
    /\ calc.stage = "reset"
    /\ calc.calls < MaxResetCalls
    /\ \E keep \in BOOLEAN :
          LET r == reset_database(calc.db, keep) IN
          calc' = [calc EXCEPT !.calls = @ + 1, !.prevOp = calc.op,
                               !.op = IF keep THEN "reset" ELSE "reset_drop",
                               !.ret = r.ret, !.db = r.db]
    /\ UNCHANGED <<ctlVars, storeVars, inputVars, envVars, engVars, timeVars>>

\* init_database(), called from outside the engine
CallInitDatabase ==
    /\ calc.stage = "reset"
    /\ calc.calls < MaxResetCalls
    /\ LET r == init_database(calc.db) IN
          calc' = [calc EXCEPT !.calls = @ + 1, !.prevOp = calc.op,
                               !.op = "init", !.ret = r.ret, !.db = r.db]
    /\ UNCHANGED <<ctlVars, storeVars, inputVars, envVars, engVars, timeVars>>

NextReset == CallResetDatabase \/ CallInitDatabase

SpecReset == InitReset /\ [][NextReset]_vars

\* ------------------------------------------------------------ properties
OpenRowsOf(c) == {i \in get_open_positions(positions) : positions[i].coin = c}
AtBoundary(e) == pc[e] \in {"loop", "wpause", "pwait", "sleep"}

\* C1: in paper mode the store never holds two open position rows of one
\* coin (the ledger, a map keyed by coin, holds at most one by construction).
C1_OneOpenPositionPerCoin ==
    ~isLive => \A c \in Coins : Cardinality(OpenRowsOf(c)) <= 1

\* C2: in paper mode, at every cycle boundary, balance plus the margins of
\* the ledger's open positions equals the initial balance plus the realized
\* P&L of the closed position rows.
C2_BalanceConservation ==
    \A e \in Engines :
        (~isLive /\ AtBoundary(e)) =>
            ledger[e].balance + SumMargin(ledger[e], OpenCoins(ledger[e]))
                = InitialBalance + SumRealized(positions)

ExecutionEvents == {"ledger", "exchange", "pos_open", "pos_close"}
\* C3: within a cycle the decision insert comes first, every execution
\* event (ledger or exchange mutation, position row insert or close)
\* precedes the status update, and the snapshot comes after the status
\* update.
C3_CycleEventOrder ==
    \A e \in Engines :
        LET t == trace[e]
        IN /\ t # <<>> => t[1] = "decision"
           /\ \A i, j \in 1..Len(t) :
                i < j => /\ ~(t[i] = "status" /\ t[j] \in ExecutionEvents)
                         /\ ~(t[i] = "snapshot" /\ t[j] # "snapshot")
                         /\ t[j] # "decision"

\* C4: a decision row is pending only while its cycle is executing it, and
\* its execution status is never set twice.
C4_StatusSetExactlyOnce ==
    \A i \in 1..Len(decisions) :
        /\ decisions[i].nset <= 1
        /\ decisions[i].status = "pending" =>
               \E e \in Engines : pc[e] = "exec" /\ cyc[e].did = i

\* C5: every successful entry decision has a position row carrying its id.
C5_SuccessfulEntryHasPosition ==
    \A i \in 1..Len(decisions) :
        (decisions[i].status = "success" /\ decisions[i].signal \in EntrySignals)
            => \E j \in 1..Len(positions) : positions[j].did = i

\* C6: a decision the risk validator rejects is never executed: its status
\* is never success (it stays pending until it is marked skipped).
C6_RejectedNeverExecuted ==
    \A i \in 1..Len(decisions) :
        ~decisions[i].riskOk => decisions[i].status \in {"pending", "skipped"}

\* C7: an engine that has read the token as stopped runs no further cycle.
C7_StoppedIsTerminal ==
    \A e \in Engines : sawStopped[e] => pc[e] \notin InCycle

\* C8: once the operator has resumed a paused engine, the engine
\* eventually starts another cycle (or the operator pauses, stops or
\* interrupts it again).
C8_ResumeLeadsToCycle == resumeSeen ~> ~resumeSeen

\* C9: an interrupt never ends an engine between the decision insert and
\* the snapshot of a cycle.
C9_InterruptDoesNotAbortCycle ==
    \A e \in Engines : exitPc[e] = "none"

\* C10: at most one cycle is in progress at any instant.
C10_SingleCycleInProgress ==
    Cardinality({e \in Engines : pc[e] \in InCycle}) <= 1

\* the cycle of engine e got past the market data fetch
PastFetch(e) == \E c \in Coins : cyc[e].cp[c] # NoPrice
BelowThreshold(e) == cyc[e].sumBalance < minBalance /\ cyc[e].sumNum = 0

\* C11: a cycle is skipped by the pre-flight check exactly when the balance
\* is below min_balance_threshold and no position is open (so a cycle with
\* an open position proceeds whatever the balance); a skipped cycle calls
\* no LLM, inserts no decision row, executes nothing, appends the status
\* event 'paused', and next_cycle_time is still stored after it.
C11_PreflightSkip ==
    \A e \in Engines :
        /\ pc[e] \in {"decide", "exec", "snap"} =>
              ~cyc[e].skip /\ ~BelowThreshold(e)
        /\ (~isLive /\ pc[e] = "decide") =>
              ~(ledger[e].balance < minBalance /\ OpenCoins(ledger[e]) = {})
        /\ cyc[e].skip => pc[e] \in {"end", "sleep", "loop"}
        /\ (cyc[e].skip /\ pc[e] = "end") =>
              /\ BelowThreshold(e)
              /\ ~cyc[e].llm
              /\ cyc[e].did = 0
              /\ trace[e] = <<>>
              /\ cyc[e].status = "paused"
        /\ (cyc[e].skip /\ pc[e] \in {"sleep", "loop"}) => cyc[e].nct

\* a cycle was skipped after trading had taken the balance below the
\* threshold, and the engine went on to its sleep
C11_Witness ==
    \E e \in Engines : cyc[e].skip /\ pc[e] = "sleep" /\ Len(positions) > 0

\* C12: every cycle appends at least one status event, whatever path it
\* ends on.
C12_EveryCycleAppendsStatus ==
    \A e \in Engines : pc[e] = "end" => cyc[e].status # "none"

C14_NextCycleTimeMonotone == nctMonotone

ActiveInputs == {i \in 1..Len(inputs) : inputs[i].active}
\* C15: whatever the interleaving of POST and DELETE /api/user_input
\* requests, at most one user_inputs row is active and it is the newest;
\* every save leaves the row it inserted active and all earlier rows
\* archived.
C15_AtMostOneActiveInput ==
    /\ [](/\ Cardinality(ActiveInputs) <= 1
          /\ \A i \in ActiveInputs : i = Len(inputs))
    /\ [][Len(inputs') > Len(inputs) =>
            ActiveInputs' = {Len(inputs')}]_vars

\* two saves have happened with a DELETE request between its read and its
\* archive, and the later row is the active one
C15_Witness ==
    /\ Len(inputs) >= 2
    /\ delPending # 0
    /\ ActiveInputs = {Len(inputs)}

\* C16: a cycle's prompt carries operator guidance only from an active
\* input of type cycle, never from one of type interrupt.  (That a POST of
\* an input moves no engine, inserts no decision and leaves the ledgers
\* alone is the frame of ApiUserInputPost.)
C16_OnlyCycleInputInPrompt ==
    \A e \in Engines : cyc[e].guidance \in {"none", "cycle"}

\* C17: the realized P&L stored in every closed position row is the P&L
\* formula applied to the row's own fields: (exit - entry) * units for a
\* long, (entry - exit) * units for a short, units = quantity_usd *
\* leverage / entry_price (stated without the division).
C17_RealizedPnlFromRowFields ==
    \A i \in 1..Len(positions) :
        LET r == positions[i]
        IN r.status = "closed" =>
            /\ r.side = "long" =>
                  r.pnl * r.entry = (r.exit - r.entry) * r.qty * r.lev
            /\ r.side = "short" =>
                  r.pnl * r.entry = (r.entry - r.exit) * r.qty * r.lev

\* Scenario S1, step by step: the first decision bought BTC at 100000 and
\* its cycle wrote the first snapshot; the second decision held at 101000
\* and its cycle wrote the second snapshot; the third decision closed at
\* 102000.
S1Opened ==
    /\ Len(decisions) >= 1
    /\ decisions[1].signal = "buy_to_enter"
    /\ decisions[1].status = "success"
    /\ Len(positions) >= 1
    /\ positions[1].entry = 100000
S1AfterOpen == S1Opened /\ Len(decisions) = 1 /\ snap.n = 1
S1AfterHold ==
    /\ S1Opened
    /\ Len(decisions) = 2
    /\ decisions[2].signal = "hold"
    /\ snap.n = 2
    /\ \E e \in Engines : cyc[e].did = 2 /\ cyc[e].cp["BTC"] = 101000
S1AfterClose ==
    /\ S1Opened
    /\ Len(decisions) = 3
    /\ decisions[2].signal = "hold"
    /\ decisions[3].signal = "close"
    /\ decisions[3].status = "success"
    /\ positions[1].exit = 102000
    /\ snap.n = 3

\* C18 as stated: after the open the snapshot shows balance 950, equity
\* 1000 and unrealized 0; the hold at 101000 shows unrealized 1 and equity
\* 951; the close at 102000 realizes 2 and leaves balance 1002 with the
\* position closed.
C18_ScenarioS1AsStated ==
    /\ S1AfterOpen =>
          snap.balance = 950 /\ snap.equity = 1000 /\ snap.unrealized = 0
    /\ S1AfterHold => snap.unrealized = 1 /\ snap.equity = 951
    /\ S1AfterClose =>
          /\ positions[1].status = "closed"
          /\ positions[1].pnl = 2
          /\ snap.balance = 1002
          /\ snap.num = 0

\* C18, amended: as stated, except that the snapshot after the open shows
\* equity 950 (balance plus unrealized P&L; the margin is not part of it).
C18_ScenarioS1 ==
    /\ S1AfterOpen =>
          snap.balance = 950 /\ snap.equity = 950 /\ snap.unrealized = 0
    /\ S1AfterHold => snap.unrealized = 1 /\ snap.equity = 951
    /\ S1AfterClose =>
          /\ positions[1].status = "closed"
          /\ positions[1].pnl = 2
          /\ snap.balance = 1002
          /\ snap.num = 0

\* the scenario has run to its end: bought at 100000, held, closed at 102000
C18_Witness == S1AfterClose /\ snap.realized = 2

\* the cycle of engine e is past its liquidation check and its summary
PastLiquidationCheck(e) ==
    ~isLive /\ (pc[e] = "decide" \/ (pc[e] = "end" /\ cyc[e].skip))
\* a position row as a ledger position
RowPos(r) == [pid |-> r.pid, side |-> r.side, entry |-> r.entry,
              qty |-> r.qty, lev |-> r.lev]

\* C19: in paper mode, after the liquidation check of a cycle, the ledger
\* holds no position whose price has crossed its liquidation price; the
\* account summary of the cycle is that of the ledger after the check; and
\* every row the check closes is closed at its liquidation price with the
\* P&L at that price, which is the loss of the margin.
C19_LiquidationCheck ==
    /\ [](\A e \in Engines : PastLiquidationCheck(e) =>
            /\ \A c \in Coins : ~Liquidated(ledger[e].pos[c], cyc[e].cp[c])
            /\ cyc[e].sumBalance = ledger[e].balance
            /\ cyc[e].sumNum = Cardinality(OpenCoins(ledger[e])))
    /\ [][\A e \in Engines : (pc[e] = "begin" /\ pc'[e] # "begin") =>
            \A i \in get_open_positions(positions) :
                positions'[i].status = "closed" =>
                    /\ positions'[i].exit = calculate_liquidation_price(
                           positions[i].entry, positions[i].lev, positions[i].side)
                    /\ positions'[i].pnl = calculate_pnl(RowPos(positions[i]),
                                                          positions'[i].exit)
                    /\ positions'[i].pnl = -positions[i].qty]_vars

\* a cycle's check has liquidated a position: the row is closed at a loss
\* of its margin and the cycle goes on with the ledger empty
C19_Witness ==
    \E e \in Engines :
        /\ PastLiquidationCheck(e)
        /\ OpenCoins(ledger[e]) = {}
        /\ \E i \in 1..Len(positions) :
              /\ positions[i].status = "closed"
              /\ positions[i].pnl = -positions[i].qty
              /\ positions[i].exit = cyc[e].cp[positions[i].coin]

\* C20: calculate_liquidation_price(entry, L, side) raises exactly when
\* L <= 0; for L > 0 it returns entry * (1 - 1/L) for a long and
\* entry * (1 + 1/L) for a short (stated multiplied by L); and at that
\* price calculate_pnl is minus the margin (quantity_usd).
C20_LiquidationPrice ==
    /\ calc.stage = "raised" => calc.lev <= 0
    /\ calc.stage \in {"priced", "done"} =>
          /\ calc.lev > 0
          /\ calc.side = "long" =>
                calc.liq * calc.lev = calc.entry * (calc.lev - 1)
          /\ calc.side = "short" =>
                calc.liq * calc.lev = calc.entry * (calc.lev + 1)
    /\ calc.stage = "done" => calc.pnl = -calc.qty

\* a short at 3x has been priced above its entry and loses its margin there
C20_Witness ==
    /\ calc.stage = "done"
    /\ calc.side = "short"
    /\ calc.lev = 3
    /\ calc.liq > calc.entry
    /\ calc.pnl = -calc.qty

\* C21: every decision the parser returns has leverage > 0 and
\* quantity_usd > 0 if it is an entry, confidence in [0,1], quantity_usd in
\* [0, 10^6], leverage in [0, 20], and, when both exit prices are present,
\* stop_loss < profit_target for a long entry and stop_loss > profit_target
\* for a short entry.
C21_ParsedDecisionInvariant ==
    calc.stage = "parsed" =>
        LET d == calc.r
        IN /\ d.signal \in EntrySignals => d.lev > 0 /\ d.qty > 0
           /\ d.conf \in 0..100
           /\ d.qty \in 0..QuantityLimit
           /\ d.lev \in 0..ParserMaxLeverage
           /\ d.signal = "buy_to_enter" =>
                 \A sl \in d.sl : \A pt \in d.pt : sl < pt
           /\ d.signal = "sell_to_enter" =>
                 \A sl \in d.sl : \A pt \in d.pt : sl > pt

\* C22: a response whose leverage exceeds the limit known for its coin is
\* rejected at parse time: no decision row carries an entry whose leverage
\* is above the limit of its coin.
C22_LeverageAboveLimitRejected ==
    \A i \in 1..Len(decisions) :
        decisions[i].signal \in EntrySignals =>
            decisions[i].lev <= leverage_limits(decisions[i].coin)

\* C23: in live mode the leverage passed to the exchange for an entry is
\* never greater than 20, whatever leverage the decision carries.
C23_LiveLeverageCapped ==
    calc.stage = "ordered" => calc.passed <= 20

\* a decision carrying more than 20x has been ordered at 20x
C23_Witness ==
    /\ calc.stage = "ordered"
    /\ calc.lev > 20
    /\ calc.passed = 20

\* C24: an entry decision whose quantity_usd exceeds the operator's
\* max_margin_usd, or whose leverage exceeds the maximum leverage of its
\* coin, is rejected by validate_trade.
C24_ConfiguredLimitsRejected ==
    (calc.stage = "validated" /\ calc.d.signal \in EntrySignals) =>
        ((calc.d.qty > calc.maxMargin \/ calc.d.lev > calc.levLimit) => ~calc.ok)

\* C25: validate_trade returns ok for every hold; for a close exactly if
\* the account holds a position of the decision's coin; and rejects an
\* entry whose quantity_usd exceeds the available balance or whose coin
\* already has an open position.
C25_ValidateTrade ==
    calc.stage = "validated" =>
        /\ calc.d.signal = "hold" => calc.ok
        /\ calc.d.signal = "close" => (calc.ok <=> calc.held[calc.d.coin])
        /\ calc.d.signal \in EntrySignals =>
              ((calc.d.qty > calc.balance \/ calc.held[calc.d.coin]) => ~calc.ok)

\* a close validated ok on an account that holds the coin and whose
\* balance is below every entry
C25_Witness ==
    /\ calc.stage = "validated"
    /\ calc.ok
    /\ calc.d.signal = "close"
    /\ calc.held["BTC"]
    /\ calc.balance = 10

\* C26: an entry decision arriving while the number of open positions is
\* at the configured max_open_positions is rejected.
C26_OpenPositionCap ==
    (calc.stage = "validated" /\ calc.d.signal \in EntrySignals) =>
        (Cardinality({c \in Coins : calc.held[c]}) >= calc.maxOpen => ~calc.ok)

\* what the rows of the call realized with an exit_time of today
LossToday ==
    (IF Len(calc.rows) >= 1 /\ calc.rows[1].exitDay = Today
     THEN calc.rows[1].pnl ELSE 0)
    + (IF Len(calc.rows) >= 2 /\ calc.rows[2].exitDay = Today
       THEN calc.rows[2].pnl ELSE 0)
\* an entry that passes every check but the daily loss limit
OtherwiseValidEntry ==
    /\ calc.d.signal \in EntrySignals
    /\ calc.d.qty <= 50
    /\ calc.d.lev <= 5
    /\ calc.d.qty <= calc.balance
    /\ ~calc.held[calc.d.coin]

C28_ClosedOnce ==
    [][\A i \in 1..Len(positions) :
          positions[i].status = "closed" =>
              /\ positions'[i] = positions[i]
              /\ (calc'.calls > calc.calls /\ calc'.pid = positions[i].pid)
                    => ~calc'.ret]_vars

\* the fields of a ledger position that a summary shows
PosFields(p) == [side |-> p.side, entry |-> p.entry, qty |-> p.qty, lev |-> p.lev]
\* two ledgers with the same balance, realized P&L and open positions
SameLedger(A, B) ==
    /\ A.balance = B.balance
    /\ A.realized = B.realized
    /\ \A c \in Coins : PosFields(A.pos[c]) = PosFields(B.pos[c])

\* C29: a ledger re-created from the store right after a save_state has
\* the balance, the realized P&L and the open positions of the ledger that
\* saved.
C29_ReloadAfterSave ==
    [][\A e \in Engines :
          (~isLive /\ pc[e] = "snap" /\ snap'.n = snap.n + 1) =>
              SameLedger(load_from_database(snap', positions'), ledger'[e])]_vars

\* No engine process alive (before a request).
NoEngineAlive == \A e \in Engines : pc[e] = "off"

\* C30: a resume request made when no engine process is alive is rejected
\* and leaves the control token as it was; a start request made when an
\* engine process is alive is rejected, starts no process and leaves the
\* token as it was; a pause request always writes "paused" and a stop
\* request always writes "stopped".
C30_ControlRequests ==
    [][(calc.stage = "api" /\ calc'.calls = calc.calls + 1) =>
          /\ (calc'.req = "resume" /\ NoEngineAlive) =>
                (calc'.code = 400 /\ token' = token)
          /\ (calc'.req = "start" /\ ~NoEngineAlive) =>
                (calc'.code = 400 /\ pc' = pc /\ token' = token)
          /\ calc'.req = "pause" => token' = "paused"
          /\ calc'.req = "stop" => token' = "stopped"]_vars

\* A resume request was refused with no engine alive, after a pause
\* request wrote its token: the token is still "paused".
C30_Witness ==
    /\ calc.stage = "api"
    /\ calc.calls >= 2
    /\ calc.req = "resume"
    /\ calc.code = 400
    /\ NoEngineAlive
    /\ token = "paused"

\* The bounds the settings are to satisfy, for one field.
SettingValid(f, x) ==
    /\ x.k = "num"
    /\ CASE f = "min_margin_usd" -> x.v > 0
         [] f = "min_balance_threshold" -> x.v >= 0
         [] f = "max_margin_usd" -> x.v > 0
         [] f = "execution_interval_seconds" -> x.v >= 10
         [] f = "max_open_positions" -> x.v \in 1..10

\* C31: after any sequence of POST /api/bot_config requests the stored
\* settings satisfy min_margin_usd > 0, min_balance_threshold >= 0,
\* max_margin_usd > 0, execution_interval_seconds >= 10 and
\* max_open_positions in 1..10; a request holding an invalid field is
\* answered 400 and changes no setting.
C31_BotConfigValid ==
    calc.stage = "config" =>
        /\ \A f \in ConfigFields : SettingValid(f, calc.cfg[f])
        /\ (calc.calls > 0 /\ \E f \in ConfigFields :
                                 /\ calc.data[f].k # "absent"
                                 /\ ~SettingValid(f, calc.data[f]))
               => (calc.code = 400 /\ calc.cfg = calc.before)

\* The five data tables of the store of a call hold no row.
TablesEmpty == \A t \in DataTables : calc.db.rows[t] = 0

\* C32: reset(preserve_schema = true) succeeds from any state of a store
\* that has its tables; after it the decisions, account_state, positions,
\* bot_status and user_inputs tables hold 0 rows and the settings rows are
\* retained; an init that follows keeps the counts at 0.
C32_ResetEmptiesStore ==
    calc.stage = "reset" =>
        /\ calc.op = "reset" /\ calc.prevOp \in {"none", "init", "reset"} =>
              /\ calc.ret
              /\ TablesEmpty
              /\ calc.db.settings = SettingsRows
        /\ calc.op = "init" /\ calc.prevOp = "reset" => TablesEmpty

\* C33: when the store write fails during the ledger's open or close (the
\* paper execution step ends the cycle in its except clause), the ledger's
\* balance, realized P&L and positions are what they were before the call.
C33_StoreFailureLeavesLedger ==
    [][\A e \in Engines :
          (~isLive /\ pc[e] = "exec" /\ pc'[e] = "end") =>
              ledger'[e] = ledger[e]]_vars

\* position_ids of the ledger's open positions, and of the store's open rows
LedgerPids(L) == {L.pos[c].pid : c \in OpenCoins(L)}
StorePids(rows) == {rows[i].pid : i \in get_open_positions(rows)}

\* C34: in paper mode, whenever an engine is between two cycles (at the top
\* of its loop or asleep after a cycle, cycles that ended early included),
\* its ledger's open positions are the store's open rows, by position_id,
\* and the balance of the latest account snapshot, if there is one, is the
\* ledger's balance.
C34_LedgerMirrorsStore ==
    ~isLive =>
        \A e \in Engines :
            pc[e] \in {"loop", "sleep"} =>
                /\ LedgerPids(ledger[e]) = StorePids(positions)
                /\ snap.n > 0 => snap.balance = ledger[e].balance

\* The position of a coin a cycle of engine e sees: the exchange's in live
\* mode, the ledger's in paper mode.
HeldBy(e, c) == IF isLive THEN exPos[c] ELSE ledger[e].pos[c]

\* C35: the row inserted for a hold decision carries the quantity and the
\* leverage of the open position of its coin when there is one, and the
\* values of the parsed answer when there is none; execute_trade on a hold
\* marks the row success and leaves the ledger's balance and positions,
\* the position rows and the exchange's positions as they were.
C35_HoldLeavesLedger ==
    [][\A e \in Engines :
          /\ (pc[e] = "decide" /\ pc'[e] = "exec"
                  /\ decisions'[Len(decisions')].signal = "hold") =>
                LET r == decisions'[Len(decisions')]
                    p == HeldBy(e, r.coin)
                IN IF p # NoPos
                      THEN r.qty = p.qty /\ r.lev = p.lev
                      ELSE \E d \in menu : /\ d.signal = "hold"
                                           /\ d.coin = r.coin
                                           /\ r.qty = d.qty
                                           /\ r.lev = d.lev
          /\ (pc[e] = "exec" /\ pc'[e] \in {"snap", "end"}
                  /\ decisions[cyc[e].did].signal = "hold") =>
                /\ decisions'[cyc[e].did].status = "success"
                /\ ledger' = ledger
                /\ positions' = positions
                /\ exPos' = exPos]_vars

\* A paper engine has executed a hold on a coin it holds a position in:
\* the row is marked success and carries the position's quantity and
\* leverage, not the answer's.
C35_Witness ==
    /\ ~isLive
    /\ \E e \in Engines :
          /\ pc[e] = "snap"
          /\ cyc[e].did > 0
          /\ LET r == decisions[cyc[e].did]
             IN /\ r.signal = "hold"
                /\ r.status = "success"
                /\ ledger[e].pos[r.coin] # NoPos
                /\ r.qty = ledger[e].pos[r.coin].qty
                /\ r.qty > 0

\* C36: a stopped value in the control token is never replaced with paused
\* by an engine (a step of an engine process, which moves its position,
\* as opposed to a request of the control plane).  An engine writes the
\* token only after it has written running at its start, so a stopped it
\* finds later was written by the control plane.
C36_EngineKeepsStopped ==
    [][(pc' # pc /\ token = "stopped") => token' # "paused"]_vars

\* C37: the engine process that a successful POST /api/bot/start spawned
\* never ends at its startup check: whatever the order of the handler's
\* token write and the child's read of the token, the child goes on to
\* run_bot.
C37_SpawnedEngineStarts ==
    [][\A e \in Engines : pc[e] = "boot" => pc'[e] \in {"boot", "init"}]_vars

\* C38: an engine that has finished a cycle and stored next_cycle_time
\* starts its next cycle only when that time has been reached, also when
\* the operator pauses and resumes during the sleep.
C38_NoCycleBeforeNextCycleTime ==
    [][\A e \in Engines :
          (pc[e] = "loop" /\ pc'[e] = "begin" /\ cyc[e].nct) =>
              nctAhead = 0]_vars

\* C39: the paper ledger's balance is never negative.  An entry whose
\* quantity_usd exceeds the balance is refused and leaves the ledger and
\* the position rows as they were; within a cycle the balance goes down
\* only by the margin of an entry, so no close and no liquidation takes
\* more than the margin that the entry took.
C39_BalanceNeverNegative ==
    /\ [](~isLive => \A e \in Engines : ledger[e].balance >= 0)
    /\ [][~isLive =>
            \A e \in Engines :
               /\ (pc[e] = "exec" /\ pc'[e] \in {"snap", "end"}
                      /\ decisions[cyc[e].did].signal \in EntrySignals
                      /\ decisions[cyc[e].did].qty > ledger[e].balance) =>
                     (ledger' = ledger /\ positions' = positions)
               /\ (pc[e] \in InCycle /\ pc'[e] # "off"
                      /\ ledger'[e].balance < ledger[e].balance) =>
                     /\ pc[e] = "exec"
                     /\ decisions[cyc[e].did].signal \in EntrySignals
                     /\ ledger'[e].balance =
                           ledger[e].balance - decisions[cyc[e].did].qty]_vars

\* An engine that started from a balance of 10 has refused an entry of
\* 20: the decision is marked skipped and the balance is still 10.
C39_Witness ==
    /\ ~isLive
    /\ \E e \in Engines :
          /\ pc[e] = "snap"
          /\ cyc[e].did > 0
          /\ decisions[cyc[e].did].signal \in EntrySignals
          /\ decisions[cyc[e].did].status = "skipped"
          /\ decisions[cyc[e].did].qty > ledger[e].balance
          /\ ledger[e].balance = 10

\* C40: the account snapshot a cycle appends at its end describes the
\* account after the cycle's execution: its num_positions is the number of
\* open positions the executed decision left (the exchange's in live
\* mode, the ledger's in paper mode) and, in paper mode, its balance is
\* the ledger's balance.
C40_SnapshotAfterExecution ==
    \A e \in Engines :
        (pc[e] = "end" /\ trace[e] # <<>>
            /\ trace[e][Len(trace[e])] = "snapshot") =>
            /\ snap.num = IF isLive
                             THEN Cardinality({c \in Coins : exPos[c] # NoPos})
                             ELSE Cardinality(OpenCoins(ledger[e]))
            /\ ~isLive => snap.balance = ledger[e].balance
====
